---- MODULE Spec2Model ----
(***************************************************************************)
(* A model of vibin's device resolution (vibin/device_resolution.py) and   *)
(* of its StreamMagic amplifier adapter (vibin/amplifiers/streammagic.py). *)
(*                                                                         *)
(* Python values are modelled as follows.  None is the empty tuple and a   *)
(* present optional value x is the one-element tuple <<x>>.  A dict is a   *)
(* function whose DOMAIN is its key set, so a missing key is a key that is *)
(* not in the DOMAIN (Python raises KeyError there).  A list is a          *)
(* sequence.  A float that the code computes by a division is kept as the  *)
(* exact fraction [num, den].                                              *)
(***************************************************************************)
EXTENDS Integers, Sequences, FiniteSets, TLC

VARIABLES
    \* ---- StreamMagic amplifier adapter -------------------------------
    device_state,   \* self._device_state, the canonical AmplifierState
    on_connect,     \* whether self._on_connect is a callable (not None)
    on_update,      \* whether self._on_update is a callable
    connected,      \* whether the websocket is currently established
    last_op,        \* the handler or command that ran last, and how it ended
    http_out,       \* the HTTP requests the last operation issued
    ws_out,         \* the websocket messages the last operation sent
    callbacks,      \* the callback invocations the last operation made
    worker,         \* the websocket worker: idle, or where it is in the handler
    reads,          \* what a caller's last read of device_state returned
    caller,         \* a caller's thread: idle, or where it is in a command
    \* ---- device resolution --------------------------------------------
    upnp_devices,   \* the module global _upnp_devices: None or the device list
    scans,          \* how many times upnpclient.discover has run (capped)
    first_found,    \* what the first run of upnpclient.discover returned
    discovered,     \* what the last call of _discover_upnp_devices returned
    call,           \* the determine_devices call in progress or just ended
    binding,        \* the determine_<role>_class call just made: arguments, result
    \* ---- orchestrator ---------------------------------------------------
    vibin,          \* the Vibin object: not constructed, constructed or failed
    handlers,       \* self._on_state_vars_update_handlers, in registration order
    subscriptions,  \* the service names of self.streamer.subscriptions
    streamer_vars,  \* the streamer's state vars: the last event it handled
    vibin_op,       \* the Vibin method that ran last, and what it did
    \* ---- history of determine_devices (not program state) -------------
    earlier,        \* the first call that ended: what it was given and gave
    inputs          \* what the call in progress has been given so far

thread_vars == <<worker, reads, caller>>

amp_vars == <<device_state, on_connect, on_update, connected,
              last_op, http_out, ws_out, callbacks, thread_vars>>

res_vars == <<upnp_devices, scans, first_found, discovered, call, binding>>

vibin_vars == <<vibin, handlers, subscriptions, streamer_vars, vibin_op>>

history_vars == <<earlier, inputs>>

vars == <<amp_vars, res_vars, vibin_vars, history_vars>>

-----------------------------------------------------------------------------
(* Python values *)

None == <<>>

Some(x) == <<x>>

Restrict(f, K) == [k \in K |-> f[k]]

Frac(n, d) == [num |-> n, den |-> d]

\* A mutant of TrueDiv: the floor division x // y.
FloorDiv(x, y) == Frac(x \div y, 1)

\* Python's true division x / y of two ints, kept exact.
TrueDiv(x, y) == Frac(x, y)

\* Python's round() of the fraction n/d (d > 0, n >= 0): to the nearest
\* integer, a tie going to the even neighbour.
PyRound(n, d) ==
    LET q == n \div d
        r == n % d
    IN  IF 2 * r < d THEN q
        ELSE IF 2 * r > d THEN q + 1
        ELSE IF q % 2 = 0 THEN q ELSE q + 1

Digit == <<"0", "1", "2", "3", "4", "5", "6", "7", "8", "9">>

RECURSIVE PyStr(_)
\* Python's str() of a non-negative int.
PyStr(n) == IF n < 10 THEN Digit[n + 1] ELSE PyStr(n \div 10) \o Digit[(n % 10) + 1]

-----------------------------------------------------------------------------
(* StreamMagic: the canonical state *)

friendly_name == "CXNv2"

AmplifierState(name, actions, power, mute, volume, sources) ==
    [name |-> name, actions |-> actions, power |-> power, mute |-> mute,
     volume |-> volume, sources |-> sources]

\* The state StreamMagic.__init__ builds.
InitialDeviceState ==
    AmplifierState(friendly_name, <<>>, None, None, None, None)

\* Python's `action in state.actions`.
HasAction(action, state) ==
    \E i \in DOMAIN state.actions : state.actions[i] = action

Capabilities(state) == {state.actions[i] : i \in DOMAIN state.actions}

-----------------------------------------------------------------------------
(* StreamMagic: inbound state messages *)

Paths == {"/zone/state", "/zone/play_state"}

Types == {"update", "response"}

CbusValues == {"amplifier", "receiver", "off"}

Percents == {42, 100}

Fields == {"pre_amp_mode", "cbus", "power", "mute", "volume_percent"}

\* Every field present, with every combination of values.
DataFull ==
    [pre_amp_mode : BOOLEAN, cbus : CbusValues, power : BOOLEAN,
     mute : BOOLEAN, volume_percent : Percents]

\* One data dict for each control mode and control-bus setting.
DataBase ==
    {d \in DataFull : d.power /\ ~d.mute /\ d.volume_percent = 42}

\* Data dicts that lack fields: any one field, all but the three a device
\* outside pre-amp mode reports, or all of them.
DataPartial ==
    {Restrict(d, Fields \ {k}) : d \in DataBase, k \in Fields}
    \cup {Restrict(d, {"pre_amp_mode", "cbus", "power"}) : d \in DataBase}
    \cup {Restrict(d, {}) : d \in DataBase}

NoParams == {<<>>, [params |-> <<>>]}

WithData(D) == {[params |-> [data |-> d]] : d \in D}

ExpectedHeader == [path |-> "/zone/state", type |-> "update"]

CompleteHeaders == [path : Paths, type : Types]

PartialHeaders == {<<>>} \cup [path : Paths] \cup [type : Types]

JsonObject(v) == [kind |-> "json", value |-> v]

\* The websocket payloads: text that is not JSON, JSON that is no object,
\* and JSON objects with and without the keys the handler reads.
Messages ==
    {[kind |-> "text"], [kind |-> "json_array"]}
    \cup {JsonObject(ExpectedHeader @@ b) :
            b \in NoParams \cup WithData(DataFull \cup DataPartial)}
    \cup {JsonObject(h @@ b) :
            h \in CompleteHeaders \ {ExpectedHeader},
            b \in NoParams \cup WithData(DataBase)}
    \cup {JsonObject(h @@ b) :
            h \in PartialHeaders,
            b \in NoParams \cup WithData({d \in DataBase : d.cbus = "amplifier"})}

-----------------------------------------------------------------------------
(* StreamMagic._handle_state_message *)

Raised(exc) == [raised |-> TRUE, exc |-> exc]

Value(v) == [raised |-> FALSE, value |-> v]

HasKey(dict, key) == key \in DOMAIN dict

\* json.loads(message): the parsed value, or JSONDecodeError.
JsonLoads(message) ==
    IF message.kind = "text" THEN Raised("JSONDecodeError") ELSE Value(message)

PowerState(flag) == IF flag THEN "on" ELSE "off"

MuteState(flag) == IF flag THEN "on" ELSE "off"

\* A mutant of PreAmpState: the mute is listed as an action and its state is
\* left unknown.
PreAmpStateMuteUnknown(data) ==
    IF {"power", "mute", "volume_percent"} \subseteq DOMAIN data
    THEN Value(AmplifierState(friendly_name,
                              <<"volume", "mute", "volume_up_down">>,
                              Some(PowerState(data["power"])),
                              None,
                              Some(TrueDiv(data["volume_percent"], 100)),
                              None))
    ELSE Raised("KeyError")

\* Lines 239-246: the device is its own pre-amp.
PreAmpState(data) ==
    IF {"power", "mute", "volume_percent"} \subseteq DOMAIN data
    THEN Value(AmplifierState(friendly_name,
                              <<"volume", "mute", "volume_up_down">>,
                              Some(PowerState(data["power"])),
                              Some(MuteState(data["mute"])),
                              Some(TrueDiv(data["volume_percent"], 100)),
                              None))
    ELSE Raised("KeyError")

\* Lines 248-255: the volume is the business of an amplifier or receiver on
\* the control bus.
CbusState(data) ==
    IF HasKey(data, "power")
    THEN Value(AmplifierState(friendly_name, <<"volume_up_down">>,
                              Some(PowerState(data["power"])), None, None, None))
    ELSE Raised("KeyError")

\* Lines 257-264: no volume control at all.
NoControlState(data) ==
    IF HasKey(data, "power")
    THEN Value(AmplifierState(friendly_name, <<>>,
                              Some(PowerState(data["power"])), None, None, None))
    ELSE Raised("KeyError")

\* A mutant of TranslateState: only "amplifier" counts as a control bus.
TranslateStateAmplifierOnly(data) ==
    IF ~HasKey(data, "pre_amp_mode") THEN Raised("KeyError")
    ELSE IF data["pre_amp_mode"] THEN PreAmpState(data)
    ELSE IF ~HasKey(data, "cbus") THEN Raised("KeyError")
    ELSE IF data["cbus"] \in {"amplifier"} THEN CbusState(data)
    ELSE NoControlState(data)

\* Lines 238-264: the AmplifierState built from the message's data, or the
\* KeyError of the first missing field the selected branch reads.
TranslateState(data) ==
    IF ~HasKey(data, "pre_amp_mode") THEN Raised("KeyError")
    ELSE IF data["pre_amp_mode"] THEN PreAmpState(data)
    ELSE IF ~HasKey(data, "cbus") THEN Raised("KeyError")
    ELSE IF data["cbus"] \in {"amplifier", "receiver"} THEN CbusState(data)
    ELSE NoControlState(data)

\* Line 229: the discriminator test.  It raises TypeError when the parsed
\* value is no dict and KeyError when a key it reads is missing; `or` reads
\* "type" only when the path is the expected one.  Its value is whether the
\* discriminators DIFFER from ("/zone/state", "update").
DiscriminatorsDiffer(parsed) ==
    IF parsed.kind # "json" THEN Raised("TypeError")
    ELSE IF ~HasKey(parsed.value, "path") THEN Raised("KeyError")
    ELSE IF parsed.value["path"] # "/zone/state" THEN Value(TRUE)
    ELSE IF ~HasKey(parsed.value, "type") THEN Raised("KeyError")
    ELSE Value(parsed.value["type"] # "update")

\* Lines 229-230: the body of the discriminator test is `pass`, so the
\* handler goes on to line 232 whatever the test found.
SkipsOnMismatch(differ) == FALSE

\* Line 232: data = parsed["params"]["data"].
ParamsData(object) ==
    IF ~HasKey(object, "params") THEN Raised("KeyError")
    ELSE IF ~HasKey(object["params"], "data") THEN Raised("KeyError")
    ELSE Value(object["params"]["data"])

Outcome(state, calls, outcome) ==
    [state |-> state, callbacks |-> calls, outcome |-> outcome]

UpdateCall(state) == [callback |-> "on_update", args |-> <<"System", state>>]

\* A mutant of NotifyUpdate: the state is replaced and nobody is told.
NotifySilently(new_state, registered) == Outcome(new_state, <<>>, "returned")

\* Line 266: self._on_update("System", self._device_state), called after the
\* state was replaced; calling None raises TypeError.
NotifyUpdate(new_state, registered) ==
    IF registered
    THEN Outcome(new_state, <<UpdateCall(new_state)>>, "returned")
    ELSE Outcome(new_state, <<>>, "TypeError")

\* Lines 223-266: what one call of the handler does to the state, which
\* callbacks it makes, and how it ends: "returned", or the exception that
\* escapes to the websocket worker.
HandleStateMessageResult(state, message, registered) ==
    LET loaded == JsonLoads(message) IN
    IF loaded.raised THEN Outcome(state, <<>>, "returned")
    ELSE
    LET differ == DiscriminatorsDiffer(loaded.value) IN
    IF differ.raised THEN Outcome(state, <<>>, differ.exc)
    ELSE IF SkipsOnMismatch(differ.value) THEN Outcome(state, <<>>, "returned")
    ELSE
    LET data == ParamsData(loaded.value.value) IN
    IF data.raised THEN Outcome(state, <<>>, data.exc)
    ELSE
    LET translated == TranslateState(data.value) IN
    IF translated.raised THEN Outcome(state, <<>>, translated.exc)
    ELSE NotifyUpdate(translated.value, registered)

Op(name, arg, outcome) == [op |-> name, arg |-> arg, outcome |-> outcome]

\* The websocket worker hands one inbound message to the handler.
HandleStateMessage(message) ==
    /\ connected
    /\ LET r == HandleStateMessageResult(device_state, message, on_update) IN
       /\ device_state' = r.state
       /\ callbacks' = r.callbacks
       /\ last_op' = Op("_handle_state_message", [message |-> message], r.outcome)
    /\ http_out' = <<>>
    /\ ws_out' = <<>>
    /\ UNCHANGED <<on_connect, on_update, connected>>
    /\ UNCHANGED <<res_vars, vibin_vars, history_vars, thread_vars>>

-----------------------------------------------------------------------------
(* StreamMagic: commands *)

\* The floats a caller sets the volume to, as exact fractions.
VolumeInputs == {Frac(0, 1), Frac(1, 8), Frac(3, 8), Frac(1, 1)}

MuteInputs == {"on", "off"}

\* How requests.get ends: it returns a response, or raises.
NetOutcomes == {"returned", "RequestException"}

Request(param, value) == [method |-> "GET", param |-> param, value |-> value]

\* A mutant of SendStateRequest: the request goes out twice.
SendStateRequestTwice(param, value) ==
    <<Request(param, value), Request(param, value)>>

\* Lines 268-269: one GET to /smoip/zone/state?<param>=<value>.
SendStateRequest(param, value) == <<Request(param, value)>>

\* The parts of the adapter a command leaves alone.
CommandFrame ==
    /\ ws_out' = <<>>
    /\ callbacks' = <<>>
    /\ UNCHANGED <<device_state, on_connect, on_update, connected>>
    /\ UNCHANGED <<res_vars, vibin_vars, history_vars, thread_vars>>

\* A mutant of Command: the capability is not looked at.
CommandUngated(name, arg, action, param, value, net) ==
    /\ http_out' = <<Request(param, value)>>
    /\ last_op' = Op(name, arg, net)
    /\ CommandFrame

\* A command: when the state lists `action`, the one request; otherwise
\* nothing.  The canonical state is not written.
Command(name, arg, action, param, value, net) ==
    /\ IF HasAction(action, device_state)
       THEN /\ http_out' = SendStateRequest(param, value)
            /\ last_op' = Op(name, arg, net)
       ELSE /\ http_out' = <<>>
            /\ last_op' = Op(name, arg, "returned")
    /\ CommandFrame

\* Lines 149-153: the volume setter.
SetVolume(volume, net) ==
    Command("volume", [volume |-> volume], "volume", "volume_percent",
            PyStr(PyRound(volume.num * 100, volume.den)), net)

\* Lines 155-158.
VolumeUp(net) ==
    Command("volume_up", <<>>, "volume_up_down", "volume_step_change", "1", net)

\* Lines 160-163.
VolumeDown(net) ==
    Command("volume_down", <<>>, "volume_up_down", "volume_step_change", "-1", net)

\* Lines 170-174: the mute setter.
SetMute(state, net) ==
    Command("mute", [state |-> state], "mute", "mute",
            IF state = "on" THEN "true" ELSE "false", net)

\* Lines 176-181.
MuteToggle(net) ==
    Command("mute_toggle", <<>>, "mute", "mute",
            IF device_state.mute = Some("on") THEN "false" ELSE "true", net)

\* A command the adapter does not support: its body is `pass`.
Unsupported(name, arg) ==
    /\ last_op' = Op(name, arg, "returned")
    /\ http_out' = <<>>
    /\ ws_out' = <<>>
    /\ callbacks' = <<>>
    /\ UNCHANGED <<device_state, on_connect, on_update, connected>>
    /\ UNCHANGED <<res_vars, vibin_vars, history_vars, thread_vars>>

\* Lines 130-138: the power setter.
SetPower(state) == Unsupported("power", [state |-> state])

\* Lines 140-142.
PowerToggle == Unsupported("power_toggle", <<>>)

\* Lines 193-196: the audio_source setter.
SetAudioSource(source) == Unsupported("audio_source", [source |-> source])

-----------------------------------------------------------------------------
(* StreamMagic: the websocket's connection events *)

SubscribeMessage == [path |-> "/zone/state", params |-> [update |-> 1]]

ConnectCall == [callback |-> "on_connect", args |-> <<>>]

\* What a connection handler did, in the order it did it.
Connection(sent, calls, order) == [ws_out |-> sent, callbacks |-> calls, order |-> order]

\* A mutant of InitializeWebsocketResult: the callback comes first.
InitializeWebsocketCallbackFirst(registered) ==
    IF registered
    THEN Connection(<<SubscribeMessage>>, <<ConnectCall>>, <<"on_connect", "send">>)
    ELSE Connection(<<SubscribeMessage>>, <<>>, <<"send">>)

\* Lines 217-221: the subscribe message is sent, and then the connect
\* callback is called if there is one.
InitializeWebsocketResult(registered) ==
    IF registered
    THEN Connection(<<SubscribeMessage>>, <<ConnectCall>>, <<"send", "on_connect">>)
    ELSE Connection(<<SubscribeMessage>>, <<>>, <<"send">>)

\* Lines 217-221: the websocket thread has (re)connected.
InitializeWebsocket ==
    /\ ~connected
    /\ connected' = TRUE
    /\ LET r == InitializeWebsocketResult(on_connect) IN
       /\ ws_out' = r.ws_out
       /\ callbacks' = r.callbacks
       /\ last_op' = Op("_initialize_websocket", r.order, "returned")
    /\ http_out' = <<>>
    /\ UNCHANGED <<device_state, on_connect, on_update>>
    /\ UNCHANGED <<res_vars, vibin_vars, history_vars, thread_vars>>

\* Line 78: the websocket thread lost the connection.  The on_disconnect
\* callable was handed to that thread at construction; the adapter itself
\* runs no code here.
Disconnected ==
    /\ connected
    /\ connected' = FALSE
    /\ callbacks' = <<>>
    /\ http_out' = <<>>
    /\ ws_out' = <<>>
    /\ last_op' = Op("on_disconnect", <<>>, "returned")
    /\ UNCHANGED <<device_state, on_connect, on_update>>
    /\ UNCHANGED <<res_vars, vibin_vars, history_vars, thread_vars>>

-----------------------------------------------------------------------------
(* StreamMagic: the websocket worker beside the callers' threads *)

\* The worker is not in the handler.
WorkerIdle == [pc |-> "idle"]

\* What the other threads' steps leave alone.
ThreadFrame == UNCHANGED <<res_vars, vibin_vars, history_vars>>

\* Lines 223-264: the worker takes a message and works out, in locals, what
\* the handler will do with it.
Receive(message) ==
    /\ connected
    /\ worker = WorkerIdle
    /\ worker' = [pc |-> "store", message |-> message,
                  result |-> HandleStateMessageResult(device_state, message,
                                                      on_update)]
    /\ UNCHANGED <<device_state, on_connect, on_update, connected,
                   last_op, http_out, ws_out, callbacks, reads, caller>>
    /\ ThreadFrame

\* A mutant of StoreState: the fields of the existing state object are
\* written one after the other, the actions and the power first.
StoreStateInPlace(current, new) ==
    [current EXCEPT !.actions = new.actions, !.power = new.power]

\* Lines 239, 248 and 257: self._device_state = AmplifierState(...), one
\* store of a reference to a new object.
StoreState(current, new) == new

\* The worker stores the new state (the state as it is, when the handler
\* drops the message or raises before the store).
Store ==
    /\ worker.pc = "store"
    /\ device_state' = StoreState(device_state, worker.result.state)
    /\ worker' = [worker EXCEPT !.pc = "notify"]
    /\ UNCHANGED <<on_connect, on_update, connected,
                   last_op, http_out, ws_out, callbacks, reads, caller>>
    /\ ThreadFrame

\* Line 266 and the return: the update callback is called, and the handler
\* ends.
Notify ==
    /\ worker.pc = "notify"
    /\ callbacks' = worker.result.callbacks
    /\ last_op' = Op("_handle_state_message", [message |-> worker.message],
                     worker.result.outcome)
    /\ http_out' = <<>>
    /\ ws_out' = <<>>
    /\ worker' = WorkerIdle
    /\ UNCHANGED <<device_state, on_connect, on_update, connected, reads,
                   caller>>
    /\ ThreadFrame

\* Lines 97-100: a caller reads the device_state property.
ReadDeviceState ==
    /\ reads' = Some(device_state)
    /\ UNCHANGED <<device_state, on_connect, on_update, connected,
                   last_op, http_out, ws_out, callbacks, worker, caller>>
    /\ ThreadFrame

\* The caller's thread is in no command.
CallerIdle == [pc |-> "idle"]

\* What a step of a command leaves alone.
CallerFrame ==
    /\ UNCHANGED <<device_state, on_connect, on_update, connected, worker, reads>>
    /\ ThreadFrame

\* Lines 152, 157, 162, 173 and 178: the command reads self._device_state
\* and looks for `action` in its actions.  Without it the command returns;
\* with it the command goes on to its request, and mute_toggle, whose value
\* is still to be read (`value` is None), to line 180 first.  `seen` is the
\* snapshot the test was made on.
CheckAction(name, arg, action, param, value) ==
    /\ caller = CallerIdle
    /\ IF HasAction(action, device_state)
       THEN /\ caller' = [pc |-> IF value = None THEN "value" ELSE "request",
                          name |-> name, arg |-> arg, action |-> action,
                          param |-> param, value |-> value,
                          seen |-> device_state]
            /\ UNCHANGED <<last_op, http_out, ws_out, callbacks>>
       ELSE /\ caller' = CallerIdle
            /\ last_op' = Op(name, arg, "returned")
            /\ http_out' = <<>>
            /\ ws_out' = <<>>
            /\ callbacks' = <<>>
    /\ CallerFrame

\* Line 180: mute_toggle reads self._device_state a second time, for its
\* mute, and works out the value to send.
ReadMuteForToggle ==
    /\ caller.pc = "value"
    /\ caller' = [caller EXCEPT
                    !.pc = "request",
                    !.value = Some(IF device_state.mute = Some("on")
                                   THEN "false" ELSE "true")]
    /\ UNCHANGED <<last_op, http_out, ws_out, callbacks>>
    /\ CallerFrame

\* Lines 153, 158, 163, 174 and 179: the request goes out and the command
\* ends, normally or with what requests.get raises.
IssueRequest(net) ==
    /\ caller.pc = "request"
    /\ http_out' = SendStateRequest(caller.param, caller.value[1])
    /\ last_op' = Op(caller.name, caller.arg, net)
    /\ ws_out' = <<>>
    /\ callbacks' = <<>>
    /\ caller' = CallerIdle
    /\ CallerFrame

\* The volume a caller sets beside the worker.
ThreadVolumes == {Frac(3, 8)}

\* Lines 149-153, a caller's thread entering the volume setter.
EnterSetVolume(volume) ==
    CheckAction("volume", [volume |-> volume], "volume", "volume_percent",
                Some(PyStr(PyRound(volume.num * 100, volume.den))))

\* Lines 155-158.
EnterVolumeUp ==
    CheckAction("volume_up", <<>>, "volume_up_down", "volume_step_change",
                Some("1"))

\* Lines 160-163.
EnterVolumeDown ==
    CheckAction("volume_down", <<>>, "volume_up_down", "volume_step_change",
                Some("-1"))

\* Lines 170-174.
EnterSetMute(state) ==
    CheckAction("mute", [state |-> state], "mute", "mute",
                Some(IF state = "on" THEN "true" ELSE "false"))

\* Lines 176-178.
EnterMuteToggle == CheckAction("mute_toggle", <<>>, "mute", "mute", None)

-----------------------------------------------------------------------------
(* StreamMagic: the adapter as a state machine *)

\* Lines 50-80: the adapter as constructed, with any choice of callbacks.
InitAmp ==
    /\ device_state = InitialDeviceState
    /\ on_connect \in BOOLEAN
    /\ on_update \in BOOLEAN
    /\ connected = FALSE
    /\ last_op = Op("__init__", <<>>, "returned")
    /\ http_out = <<>>
    /\ ws_out = <<>>
    /\ callbacks = <<>>
    /\ worker = WorkerIdle
    /\ reads = None
    /\ caller = CallerIdle

AmpStep ==
    \/ \E message \in Messages : HandleStateMessage(message)
    \/ \E volume \in VolumeInputs, net \in NetOutcomes : SetVolume(volume, net)
    \/ \E net \in NetOutcomes : VolumeUp(net)
    \/ \E net \in NetOutcomes : VolumeDown(net)
    \/ \E state \in MuteInputs, net \in NetOutcomes : SetMute(state, net)
    \/ \E net \in NetOutcomes : MuteToggle(net)
    \/ \E state \in {"on", "off"} : SetPower(state)
    \/ PowerToggle
    \/ \E source \in {"usb"} : SetAudioSource(source)
    \/ InitializeWebsocket
    \/ Disconnected

\* The payloads the worker is given beside the callers: text that is not
\* JSON, one state update for each control mode and control-bus setting,
\* and the update of a muted pre-amp.
ThreadMessages ==
    {[kind |-> "text"]}
    \cup {JsonObject(ExpectedHeader @@ b) : b \in WithData(DataBase)}
    \cup {JsonObject(ExpectedHeader @@ b) :
            b \in WithData({d \in DataFull :
                              /\ d.pre_amp_mode /\ d.cbus = "off" /\ d.power
                              /\ d.mute /\ d.volume_percent = 42})}

\* The worker and the callers, step by step.
ThreadStep ==
    \/ \E message \in ThreadMessages : Receive(message)
    \/ Store
    \/ Notify
    \/ ReadDeviceState
    \/ \E volume \in ThreadVolumes : EnterSetVolume(volume)
    \/ EnterVolumeUp
    \/ EnterVolumeDown
    \/ \E state \in MuteInputs : EnterSetMute(state)
    \/ EnterMuteToggle
    \/ ReadMuteForToggle
    \/ \E net \in NetOutcomes : IssueRequest(net)
    \/ InitializeWebsocket
    \/ Disconnected

-----------------------------------------------------------------------------
(* Device resolution: devices and the network *)

MaxDiscovered == 2

MaxListed == 2

\* The counter of scans stops counting here.
MaxScans == 2

RendererType == "urn:schemas-upnp-org:device:MediaRenderer:1"

ServerType == "urn:schemas-upnp-org:device:MediaServer:1"

\* Python's `tag in device_type` for the device types of the model.
TypeContains(device_type, tag) ==
    \/ tag = "MediaRenderer" /\ device_type = RendererType
    \/ tag = "MediaServer" /\ device_type = ServerType

\* A upnpclient.Device.  `obj` tells apart the Python objects: the devices a
\* scan returns are one object each, and every upnpclient.Device(url) call
\* builds a new one.
Device(friendly, manufacturer, device_type, model, location) ==
    [friendly_name |-> friendly, manufacturer |-> manufacturer,
     device_type |-> device_type, model_name |-> model,
     location |-> location, obj |-> "discovered"]

CXN == Device("CXNv2", "Cambridge Audio", RendererType, "CXNv2", "http://cxn.local/desc.xml")

EDGE == Device("Edge", "Cambridge Audio", RendererType, "Edge NQ", "http://edge.local/desc.xml")

AMP == Device("H120", "Hegel", RendererType, "H120", "http://amp.local/desc.xml")

NAS == Device("NAS", "Illustrate", ServerType, "Asset UPnP", "http://nas.local/desc.xml")

DeviceUniverse == {CXN, EDGE, AMP, NAS}

RECURSIVE ListsUpTo(_, _)
\* The sequences over S of length at most n.
ListsUpTo(S, n) ==
    IF n = 0 THEN {<<>>}
    ELSE LET shorter == ListsUpTo(S, n - 1) IN
         shorter \cup {Append(l, x) : l \in shorter, x \in S}

NoRepeat(l) == \A i, j \in DOMAIN l : i # j => l[i] # l[j]

\* The lists of at most n different elements of S, in any order.
Listings(S, n) == {l \in ListsUpTo(S, n) : NoRepeat(l)}

\* What upnpclient.discover may return: some of the devices, in any order.
Snapshots == Listings(DeviceUniverse, MaxDiscovered)

GoneUrl == "http://gone.local/desc.xml"

Urls == {d.location : d \in DeviceUniverse} \cup {GoneUrl}

\* urlparse(text).hostname: the host of a URL, None for a bare name.
Hostname(text) ==
    IF text \in Urls
    THEN Some(CASE text = CXN.location -> "cxn.local"
                [] text = EDGE.location -> "edge.local"
                [] text = AMP.location -> "amp.local"
                [] text = NAS.location -> "nas.local"
                [] OTHER -> "gone.local")
    ELSE None

\* upnpclient.Device(url): a new object for the device that serves its
\* description at url, or requests.RequestException when nothing answers.
FetchDevice(url, site) ==
    IF \E d \in DeviceUniverse : d.location = url
    THEN Value([(CHOOSE d \in DeviceUniverse : d.location = url)
                  EXCEPT !.obj = site])
    ELSE Raised("RequestException")

-----------------------------------------------------------------------------
(* _discover_upnp_devices *)

Timeouts == {1, 5}

\* What a call of _discover_upnp_devices did: the list it returned, the
\* cache as it left it, and whether it ran upnpclient.discover.
Discovery(timeout, devices, cache, scanned) ==
    [called |-> TRUE, timeout |-> timeout, devices |-> devices,
     cache |-> cache, scanned |-> scanned]

\* No call of _discover_upnp_devices: the cache stays as it is.
NoDiscovery(cache) ==
    [called |-> FALSE, timeout |-> 0, devices |-> <<>>,
     cache |-> cache, scanned |-> FALSE]

\* A mutant of DiscoverUpnpDevices: the cache is never consulted.
DiscoverAlways(cache, timeout, found) ==
    Discovery(timeout, found, Some(found), TRUE)

\* Lines 24-45: the cached list when there is one; otherwise the list that
\* upnpclient.discover(timeout) returns now (`found`), which is cached.
DiscoverUpnpDevices(cache, timeout, found) ==
    IF cache # None
    THEN Discovery(timeout, cache[1], cache, FALSE)
    ELSE Discovery(timeout, found, Some(found), TRUE)

\* Python's matches[0], where matches is the list a comprehension built: its
\* first element, or IndexError.
First(matches) ==
    IF matches = <<>> THEN Raised("IndexError") ELSE Value(matches[1])

\* Python's next((x for x in ...), None) over the list of matches.
NextOrNone(matches) == IF matches = <<>> THEN None ELSE Some(matches[1])

-----------------------------------------------------------------------------
(* Hints *)

NoneHint == [kind |-> "None"]

Str(text) == [kind |-> "str", value |-> text]

Bool(flag) == [kind |-> "bool", value |-> flag]

\* `hint is None or hint == ""`.
IsBlank(hint) == hint.kind = "None" \/ (hint.kind = "str" /\ hint.value = "")

\* The result of a role resolver: the device it returns (None included) or
\* the exception it raises, with the discovery lookup it made on the way.
Returns(device, disc) == [raised |-> FALSE, value |-> device, disc |-> disc]

\* `named` lists what the exception's message quotes of the hint and of the
\* URLs tried.
RaisesNaming(exc, named, disc) ==
    [raised |-> TRUE, exc |-> exc, named |-> named, disc |-> disc]

\* An exception whose message quotes none of them.
Raises(exc, disc) == RaisesNaming(exc, <<>>, disc)

\* The first match as the resolver's result; `missing` is what the
\* resolver's `except IndexError` makes of no match.
FirstOr(matches, disc, missing) ==
    LET first == First(matches) IN
    IF first.raised THEN missing ELSE Returns(Some(first.value), disc)

-----------------------------------------------------------------------------
(* _determine_streamer_device *)

IsCambridge(entry) == entry["manufacturer"] = "Cambridge Audio"

\* The vendor probe's outcomes: requests.get raises, or a response.
ProbeEntries ==
    {[manufacturer |-> "Cambridge Audio", description_url |-> CXN.location],
     [manufacturer |-> "Cambridge Audio", description_url |-> GoneUrl],
     [manufacturer |-> "Cambridge Audio"],
     [manufacturer |-> "Illustrate", description_url |-> NAS.location],
     [description_url |-> CXN.location]}

ProbeBodies ==
    {[kind |-> "text"],
     [kind |-> "json", value |-> <<>>],
     [kind |-> "json", value |-> [data |-> <<>>]]}
    \cup {[kind |-> "json", value |-> [data |-> [devices |-> l]]] :
            l \in Listings(ProbeEntries, MaxListed)}

ProbeOutcomes ==
    {[kind |-> "Timeout"], [kind |-> "ConnectionError"],
     [kind |-> "response", status_code |-> 404, body |-> [kind |-> "text"]]}
    \cup {[kind |-> "response", status_code |-> 200, body |-> b] : b \in ProbeBodies}

\* Lines 114-151: the answer to a probe that came back with status 200.
StreamerFromProbe(streamer_input, body, cache) ==
    LET quiet == NoDiscovery(cache) IN
    IF body.kind # "json" THEN RaisesNaming("VibinError", <<streamer_input>>, quiet)
    ELSE IF ~HasKey(body.value, "data") THEN RaisesNaming("VibinError", <<streamer_input>>, quiet)
    ELSE IF ~HasKey(body.value["data"], "devices") THEN RaisesNaming("VibinError", <<streamer_input>>, quiet)
    ELSE
    LET devices == body.value["data"]["devices"] IN
    IF \E i \in DOMAIN devices : ~HasKey(devices[i], "manufacturer")
    THEN RaisesNaming("VibinError", <<streamer_input>>, quiet)
    ELSE
    LET streamer == First(SelectSeq(devices, IsCambridge)) IN
    IF streamer.raised THEN RaisesNaming("VibinError", <<streamer_input>>, quiet)
    ELSE IF ~HasKey(streamer.value, "description_url") THEN RaisesNaming("VibinError", <<streamer_input>>, quiet)
    ELSE
    LET device == FetchDevice(streamer.value["description_url"], "streamer") IN
    IF device.raised
    THEN RaisesNaming("VibinError",
                      <<streamer_input, streamer.value["description_url"]>>, quiet)
    ELSE Returns(Some(device.value), quiet)

\* A mutant of ByFriendlyName: with the short timeout only the first device of
\* the list is looked at.
ByFriendlyNameWithinTimeout(name, disc) ==
    LET Named(device) == device.friendly_name = name
        heard == IF disc.timeout = 1 /\ Len(disc.devices) > 1
                 THEN <<disc.devices[1]>> ELSE disc.devices
    IN  FirstOr(SelectSeq(heard, Named), disc,
                RaisesNaming("VibinError", <<name>>, disc))

\* Lines 154-171: the hint as a UPnP friendly name.
ByFriendlyName(name, disc) ==
    LET Named(device) == device.friendly_name = name IN
    FirstOr(SelectSeq(disc.devices, Named), disc,
            RaisesNaming("VibinError", <<name>>, disc))

\* A mutant of AutoStreamer: any vendor's MediaRenderer will do.
AutoStreamerAnyVendor(disc) ==
    LET Wanted(device) == TypeContains(device.device_type, "MediaRenderer") IN
    FirstOr(SelectSeq(disc.devices, Wanted), disc, Raises("VibinError", disc))

\* Lines 64-83: no hint, so the first Cambridge Audio MediaRenderer found.
AutoStreamer(disc) ==
    LET Wanted(device) ==
            /\ device.manufacturer = "Cambridge Audio"
            /\ TypeContains(device.device_type, "MediaRenderer")
    IN  FirstOr(SelectSeq(disc.devices, Wanted), disc, Raises("VibinError", disc))

\* A mutant of ByUrl: the error message does not quote the URL.
ByUrlUnnamed(url, site, cache) ==
    LET device == FetchDevice(url, site) IN
    IF device.raised THEN Raises("VibinError", NoDiscovery(cache))
    ELSE Returns(Some(device.value), NoDiscovery(cache))

\* Lines 85-99 (and 250-263, 331-344): the hint as a description URL.
ByUrl(url, site, cache) ==
    LET device == FetchDevice(url, site) IN
    IF device.raised THEN RaisesNaming("VibinError", <<url>>, NoDiscovery(cache))
    ELSE Returns(Some(device.value), NoDiscovery(cache))

\* Lines 48-171.  `found` is what a scan returns if one runs and `probe` is
\* how the vendor probe ends if one is made.  A probe answered with a status
\* other than 200 leaves the `if` on line 113 without a return or a raise:
\* the function ends and returns None.
DetermineStreamerDevice(streamer_input, timeout, cache, found, probe) ==
    IF IsBlank(streamer_input)
    THEN AutoStreamer(DiscoverUpnpDevices(cache, timeout, found))
    ELSE IF Hostname(streamer_input.value) # None
         THEN ByUrl(streamer_input.value, "streamer", cache)
    ELSE IF probe.kind = "Timeout"
         THEN RaisesNaming("VibinError", <<streamer_input.value>>, NoDiscovery(cache))
    ELSE IF probe.kind = "ConnectionError"
         THEN ByFriendlyName(streamer_input.value,
                             DiscoverUpnpDevices(cache, timeout, found))
    ELSE IF probe.status_code = 200
         THEN StreamerFromProbe(streamer_input.value, probe.body, cache)
    ELSE Returns(None, NoDiscovery(cache))

-----------------------------------------------------------------------------
(* _determine_media_server_device *)

ListingEntries ==
    {[description_url |-> NAS.location],
     [description_url |-> CXN.location],
     [description_url |-> GoneUrl],
     [name |-> "no url"]}

ListingBodies ==
    {[kind |-> "text"],
     [kind |-> "json", value |-> <<>>],
     [kind |-> "json", value |-> [data |-> <<>>]]}
    \cup {[kind |-> "json", value |-> [data |-> [devices |-> l]]] :
            l \in Listings(ListingEntries, MaxListed)}

\* How the GET of the streamer's /smoip/system/upnp ends.  The code does not
\* look at the status of the response.
ListingOutcomes ==
    {[kind |-> "ConnectionError"]}
    \cup {[kind |-> "response", body |-> b] : b \in ListingBodies}

IsServerEntry(entry) ==
    TypeContains(FetchDevice(entry["description_url"], "listing").value.device_type,
                 "MediaServer")

\* Lines 204-236: the media server the Cambridge Audio streamer knows of.
\* Every failure but "no server listed" ends in VibinError.
MediaServerFromListing(listing, cache) ==
    LET quiet == NoDiscovery(cache) IN
    IF listing.kind # "response" THEN Raises("VibinError", quiet)
    ELSE IF listing.body.kind # "json" THEN Raises("VibinError", quiet)
    ELSE IF ~HasKey(listing.body.value, "data") THEN Raises("VibinError", quiet)
    ELSE IF ~HasKey(listing.body.value["data"], "devices")
         THEN Raises("VibinError", quiet)
    ELSE
    LET devices == listing.body.value["data"]["devices"] IN
    IF \E i \in DOMAIN devices :
          \/ ~HasKey(devices[i], "description_url")
          \/ FetchDevice(devices[i]["description_url"], "listing").raised
    THEN Raises("VibinError", quiet)
    ELSE
    LET media_server == First(SelectSeq(devices, IsServerEntry)) IN
    IF media_server.raised THEN Returns(None, quiet)
    ELSE Returns(Some(FetchDevice(media_server.value["description_url"],
                                  "media_server").value), quiet)

\* A mutant of AutoMediaServer: no MediaServer found is an error.
AutoMediaServerOrError(disc) ==
    LET IsServer(device) == TypeContains(device.device_type, "MediaServer") IN
    FirstOr(SelectSeq(disc.devices, IsServer), disc, Raises("VibinError", disc))

\* Lines 238-248: the first MediaServer a scan found, or None.
AutoMediaServer(disc) ==
    LET IsServer(device) == TypeContains(device.device_type, "MediaServer") IN
    FirstOr(SelectSeq(disc.devices, IsServer), disc, Returns(None, disc))

\* Lines 174-280.  `streamer_device` is None or <<device>>; reading the
\* manufacturer of None raises AttributeError.
DetermineMediaServerDevice(media_server_input, timeout, streamer_device, cache, found, listing) ==
    IF IsBlank(media_server_input)
    THEN IF streamer_device = None
         THEN Raises("AttributeError", NoDiscovery(cache))
         ELSE IF streamer_device[1].manufacturer = "Cambridge Audio"
         THEN MediaServerFromListing(listing, cache)
         ELSE AutoMediaServer(DiscoverUpnpDevices(cache, timeout, found))
    ELSE IF Hostname(media_server_input.value) # None
         THEN ByUrl(media_server_input.value, "media_server", cache)
    ELSE ByFriendlyName(media_server_input.value,
                        DiscoverUpnpDevices(cache, timeout, found))

-----------------------------------------------------------------------------
(* _determine_amplifier_device *)

IsRenderer(device) == TypeContains(device.device_type, "MediaRenderer")

\* A mutant of AutoAmplifier: the streamer's device is never the amplifier.
AutoAmplifierNeverStreamer(disc, streamer_device) ==
    LET NotStreamer(device) == Some(device) # streamer_device
        first == First(SelectSeq(SelectSeq(disc.devices, IsRenderer), NotStreamer))
    IN  IF first.raised THEN Returns(None, disc)
        ELSE Returns(Some(first.value), disc)

\* Lines 300-329: the only MediaRenderer found, or the first one that is not
\* the streamer's device object, or None.
AutoAmplifier(disc, streamer_device) ==
    LET media_renderers == SelectSeq(disc.devices, IsRenderer)
        NotStreamer(device) == Some(device) # streamer_device
    IN  IF Len(media_renderers) = 1
        THEN Returns(Some(media_renderers[1]), disc)
        ELSE LET first == First(SelectSeq(media_renderers, NotStreamer)) IN
             IF first.raised THEN Returns(None, disc)
             ELSE Returns(Some(first.value), disc)

\* Lines 283-361.
DetermineAmplifierDevice(amplifier_input, timeout, streamer_device, cache, found) ==
    IF IsBlank(amplifier_input)
    THEN AutoAmplifier(DiscoverUpnpDevices(cache, timeout, found), streamer_device)
    ELSE IF Hostname(amplifier_input.value) # None
         THEN ByUrl(amplifier_input.value, "amplifier", cache)
    ELSE ByFriendlyName(amplifier_input.value,
                        DiscoverUpnpDevices(cache, timeout, found))

-----------------------------------------------------------------------------
(* determine_devices *)

StreamerHints ==
    {NoneHint, Str(""), Str(CXN.location), Str(AMP.location), Str(GoneUrl),
     Str("CXNv2"), Str("Bedroom")}

MediaServerHints ==
    {Bool(FALSE), Bool(TRUE), NoneHint, Str(NAS.location), Str(GoneUrl),
     Str("NAS"), Str("Bedroom")}

AmplifierHints ==
    {Bool(FALSE), Bool(TRUE), NoneHint, Str(AMP.location), Str(GoneUrl),
     Str("H120"), Str("Bedroom")}

\* An argument determine_devices has not read yet, and an exchange with the
\* network that was not made.
Unread == [kind |-> "unread"]

NotMade == [kind |-> "not made"]

IsBareName(hint) == ~IsBlank(hint) /\ Hostname(hint.value) = None

\* The scan results to draw from: a scan runs only when a lookup is made
\* with nothing cached.
ScanResults(lookup) == IF lookup /\ upnp_devices = None THEN Snapshots ELSE {<<>>}

IdleCall ==
    [pc |-> "idle", streamer_input |-> Unread, media_server_input |-> Unread,
     amplifier_input |-> Unread, discovery_timeout |-> 0,
     probe |-> NotMade, listing |-> NotMade,
     streamer |-> None, media_server |-> None, amplifier |-> None,
     outcome |-> "none", named |-> <<>>]

\* Nothing given yet to the call in progress.
NoInputs ==
    [streamer_input |-> Unread, probe |-> NotMade,
     media_server_input |-> Unread, listing |-> NotMade,
     amplifier_input |-> Unread]

Min(a, b) == IF a < b THEN a ELSE b

\* The module state after a resolver step that made the lookup `disc`.
Discovered(disc) ==
    /\ upnp_devices' = disc.cache
    /\ scans' = IF disc.scanned THEN Min(scans + 1, MaxScans) ELSE scans
    /\ first_found' = IF disc.scanned /\ first_found = None
                      THEN Some([timeout |-> disc.timeout, devices |-> disc.devices])
                      ELSE first_found
    /\ discovered' = IF disc.called
                     THEN Some([timeout |-> disc.timeout, devices |-> disc.devices])
                     ELSE discovered
    /\ UNCHANGED <<amp_vars, vibin_vars, binding>>

\* A call of _discover_upnp_devices(timeout) on its own.
Discover(timeout, found) ==
    /\ call.pc = "idle"
    /\ Discovered(DiscoverUpnpDevices(upnp_devices, timeout, found))
    /\ UNCHANGED call

\* A role resolver raised: determine_devices ends with that exception.
Failed(c, r) == [c EXCEPT !.pc = "done", !.outcome = r.exc, !.named = r.named]

\* Line 372: determine_devices is called and resolves the streamer.  The
\* hints of the other two roles are drawn when it first reads them, and an
\* argument (with the exchange it led to) is kept only until the next role is
\* resolved, nothing reading it after that.
ResolveStreamer(streamer_input, timeout, found, probe) ==
    /\ call.pc = "idle"
    /\ LET r == DetermineStreamerDevice(streamer_input, timeout, upnp_devices,
                                        found, probe)
           c == [IdleCall EXCEPT !.streamer_input = streamer_input,
                                 !.discovery_timeout = timeout,
                                 !.probe = probe, !.outcome = "running"]
       IN  /\ Discovered(r.disc)
           /\ call' = IF r.raised THEN Failed(c, r)
                      ELSE [c EXCEPT !.pc = "media_server", !.streamer = r.value]

\* Lines 374-381: the media server, unless the caller passed False; True
\* stands for "no hint".
ResolveMediaServer(media_server_input, found, listing) ==
    /\ call.pc = "media_server"
    /\ LET c == [call EXCEPT !.streamer_input = Unread, !.probe = NotMade,
                             !.media_server_input = media_server_input,
                             !.listing = listing]
       IN  IF media_server_input = Bool(FALSE)
           THEN /\ Discovered(NoDiscovery(upnp_devices))
                /\ call' = [c EXCEPT !.pc = "amplifier"]
           ELSE LET r == DetermineMediaServerDevice(
                            IF media_server_input = Bool(TRUE)
                            THEN NoneHint ELSE media_server_input,
                            call.discovery_timeout, call.streamer,
                            upnp_devices, found, listing)
                IN  /\ Discovered(r.disc)
                    /\ call' = IF r.raised THEN Failed(c, r)
                               ELSE [c EXCEPT !.pc = "amplifier",
                                              !.media_server = r.value]

\* Lines 383-392: the amplifier, likewise, and the return of the triple.
ResolveAmplifier(amplifier_input, found) ==
    /\ call.pc = "amplifier"
    /\ LET c == [call EXCEPT !.media_server_input = Unread, !.listing = NotMade,
                             !.amplifier_input = amplifier_input] IN
       IF amplifier_input = Bool(FALSE)
       THEN /\ Discovered(NoDiscovery(upnp_devices))
            /\ call' = [c EXCEPT !.pc = "done", !.outcome = "returned"]
       ELSE LET r == DetermineAmplifierDevice(
                        IF amplifier_input = Bool(TRUE)
                        THEN NoneHint ELSE amplifier_input,
                        call.discovery_timeout, call.streamer,
                        upnp_devices, found)
            IN  /\ Discovered(r.disc)
                /\ call' = IF r.raised THEN Failed(c, r)
                           ELSE [c EXCEPT !.pc = "done", !.outcome = "returned",
                                          !.amplifier = r.value]

\* The caller has the result (or the exception); the next call may start.
Finish ==
    /\ call.pc = "done"
    /\ call' = IdleCall
    /\ UNCHANGED <<upnp_devices, scans, first_found, discovered, binding>>
    /\ UNCHANGED <<amp_vars, vibin_vars>>

\* Lines 17 and on: the module as imported, no scan made yet.
InitResolve ==
    /\ upnp_devices = None
    /\ scans = 0
    /\ first_found = None
    /\ discovered = None
    /\ call = IdleCall
    /\ binding = None
    /\ earlier = None
    /\ inputs = NoInputs

\* Whether the resolver looks up the discovered devices for this hint.
StreamerLooksUp(hint, probe) ==
    IsBlank(hint) \/ (IsBareName(hint) /\ probe.kind = "ConnectionError")

MediaServerLooksUp(hint, streamer_device) ==
    \/ (hint = Bool(TRUE) \/ IsBlank(hint))
         /\ streamer_device # None
         /\ streamer_device[1].manufacturer # "Cambridge Audio"
    \/ hint.kind = "str" /\ IsBareName(hint)

MediaServerAsksStreamer(hint, streamer_device) ==
    /\ (hint = Bool(TRUE) \/ IsBlank(hint))
    /\ streamer_device # None
    /\ streamer_device[1].manufacturer = "Cambridge Audio"

AmplifierLooksUp(hint) ==
    (hint = Bool(TRUE) \/ IsBlank(hint)) \/ (hint.kind = "str" /\ IsBareName(hint))

ResolveStep ==
    \/ \E timeout \in Timeouts, found \in ScanResults(TRUE) :
         Discover(timeout, found) /\ UNCHANGED history_vars
    \/ \E hint \in StreamerHints, timeout \in Timeouts :
         \E probe \in IF IsBareName(hint) THEN ProbeOutcomes ELSE {NotMade} :
           \E found \in ScanResults(StreamerLooksUp(hint, probe)) :
             ResolveStreamer(hint, timeout, found, probe) /\ UNCHANGED history_vars
    \/ \E hint \in MediaServerHints :
         \E listing \in IF MediaServerAsksStreamer(hint, call.streamer)
                        THEN ListingOutcomes ELSE {NotMade} :
           \E found \in ScanResults(MediaServerLooksUp(hint, call.streamer)) :
             ResolveMediaServer(hint, found, listing) /\ UNCHANGED history_vars
    \/ \E hint \in AmplifierHints :
         \E found \in ScanResults(AmplifierLooksUp(hint)) :
           ResolveAmplifier(hint, found) /\ UNCHANGED history_vars
    \/ Finish /\ UNCHANGED history_vars

-----------------------------------------------------------------------------
(* determine_devices, called again and again *)

\* The hints and the answers of the network that the repeated calls draw from.
RepeatStreamerHints == {NoneHint, Str(CXN.location), Str("CXNv2")}

RepeatProbes ==
    {[kind |-> "ConnectionError"],
     [kind |-> "response", status_code |-> 200,
      body |-> [kind |-> "json", value |-> [data |-> [devices |->
                  <<[manufacturer |-> "Cambridge Audio",
                     description_url |-> CXN.location]>>]]]]}

RepeatMediaServerHints == {Bool(FALSE), NoneHint, Str("NAS")}

RepeatListings ==
    {[kind |-> "ConnectionError"],
     [kind |-> "response",
      body |-> [kind |-> "json", value |-> [data |-> [devices |->
                  <<[description_url |-> NAS.location]>>]]]]}

RepeatAmplifierHints == {NoneHint, Str("H120"), Str(GoneUrl)}

\* The call that has just ended: what it was given, the snapshot it left
\* cached, and what it gave.
Ended ==
    [inputs |-> inputs, snapshot |-> upnp_devices,
     discovery_timeout |-> call.discovery_timeout,
     outcome |-> call.outcome, named |-> call.named,
     streamer |-> call.streamer, media_server |-> call.media_server,
     amplifier |-> call.amplifier]

\* The same steps as ResolveStep, with the first call that ends remembered.
RepeatStep ==
    \/ \E timeout \in Timeouts, found \in ScanResults(TRUE) :
         Discover(timeout, found) /\ UNCHANGED history_vars
    \/ \E hint \in RepeatStreamerHints, timeout \in Timeouts :
         \E probe \in IF IsBareName(hint) THEN RepeatProbes ELSE {NotMade} :
           \E found \in ScanResults(StreamerLooksUp(hint, probe)) :
             /\ ResolveStreamer(hint, timeout, found, probe)
             /\ inputs' = [NoInputs EXCEPT !.streamer_input = hint, !.probe = probe]
             /\ UNCHANGED earlier
    \/ \E hint \in RepeatMediaServerHints :
         \E listing \in IF MediaServerAsksStreamer(hint, call.streamer)
                        THEN RepeatListings ELSE {NotMade} :
           \E found \in ScanResults(MediaServerLooksUp(hint, call.streamer)) :
             /\ ResolveMediaServer(hint, found, listing)
             /\ inputs' = [inputs EXCEPT !.media_server_input = hint,
                                         !.listing = listing]
             /\ UNCHANGED earlier
    \/ \E hint \in RepeatAmplifierHints :
         \E found \in ScanResults(AmplifierLooksUp(hint)) :
           /\ ResolveAmplifier(hint, found)
           /\ inputs' = [inputs EXCEPT !.amplifier_input = hint]
           /\ UNCHANGED earlier
    \/ /\ Finish
       /\ earlier' = IF earlier = None THEN Some(Ended) ELSE earlier
       /\ inputs' = NoInputs

-----------------------------------------------------------------------------
(* determine_streamer_class, determine_media_server_class,
   determine_amplifier_class *)

\* The most implementations a role's package holds.
MaxKnown == 3

\* An implementation class: its __name__ and the model_name it declares.
Class(name, model) == [name |-> name, model_name |-> model]

\* The classes a role's package may hold (lines 9-15 import the packages):
\* two of them declare the same model.
ClassUniverse ==
    {Class("CXNv2", "CXNv2"), Class("StreamMagic", "CXNv2"), Class("Hegel", "H120")}

\* a < b for the names inspect.getmembers sorts by.
NameBefore(a, b) ==
    \/ a = "CXNv2" /\ b \in {"Hegel", "StreamMagic"}
    \/ a = "Hegel" /\ b = "StreamMagic"

\* What the loop over inspect.getmembers(package) collects: the classes of
\* the package, in the order of their names.
KnownLists ==
    {l \in Listings(ClassUniverse, MaxKnown) :
        \A i, j \in DOMAIN l : i < j => NameBefore(l[i].name, l[j].name)}

\* The override tables model_to_streamer, model_to_media_server and
\* model_to_amplifier: dicts from model name to class.
NoOverrides == [m \in {} |-> Class("", "")]

OverrideTables ==
    {NoOverrides,
     [m \in {"CXNv2"} |-> Class("Hegel", "H120")],
     [m \in {"Asset UPnP"} |-> Class("StreamMagic", "CXNv2")],
     [m \in {"CXNv2", "Edge NQ"} |-> Class("StreamMagic", "CXNv2")]}

TypeNames == {"CXNv2", "StreamMagic", "Hegel", "Asset"}

Roles == {"streamer", "media server", "amplifier"}

\* A raise whose message quotes `named`, for the class resolvers.
RaisedNaming(exc, named) == [raised |-> TRUE, exc |-> exc, named |-> named]

\* known_by_model after the loop: every class under the model it declares,
\* a later class replacing an earlier one of the same model.
ByModel(known) ==
    [m \in {known[i].model_name : i \in DOMAIN known} |->
        LET last == CHOOSE i \in DOMAIN known :
                      /\ known[i].model_name = m
                      /\ \A j \in DOMAIN known : known[j].model_name = m => j <= i
        IN  known[last]]

\* Python's dict.update: the entries of `other` replace those of `dict`.
Update(dict, other) ==
    [m \in DOMAIN dict \cup DOMAIN other |->
        IF m \in DOMAIN other THEN other[m] ELSE dict[m]]

\* A mutant of KnownByModel: the overrides are written first and the
\* declared models over them.
KnownByModelDeclaredLast(known, model_to) == Update(model_to, ByModel(known))

\* Lines 400-409 (and 444-453, 488-497): the map from model to class, with
\* the role's override table written over it.
KnownByModel(known, model_to) == Update(ByModel(known), model_to)

\* A mutant of ByTypeName: the class asked for must also be the one of the
\* device's model.
ByTypeNameOfModel(known, model_to, device, type) ==
    LET Asked(class) == class.name = type
        found == NextOrNone(SelectSeq(known, Asked))
    IN  IF found = None \/ device = None THEN RaisedNaming("VibinError", <<type>>)
        ELSE IF found[1].model_name # device[1].model_name
        THEN RaisedNaming("VibinError", <<type>>)
        ELSE Value(found[1])

\* Lines 416-430 (and 462-476, 506-520): the first known class of the name
\* asked for, or VibinError quoting that name.
ByTypeName(known, model_to, device, type) ==
    LET Asked(class) == class.name = type
        found == NextOrNone(SelectSeq(known, Asked))
    IN  IF found = None THEN RaisedNaming("VibinError", <<type>>)
        ELSE Value(found[1])

\* A mutant of ByModelName: a model without a class gives no class and no
\* error.
ByModelNameOrNothing(known, model_to, device) ==
    LET by_model == KnownByModel(known, model_to) IN
    IF device = None THEN RaisedNaming("AttributeError", <<>>)
    ELSE IF ~HasKey(by_model, device[1].model_name) THEN Value(None)
    ELSE Value(by_model[device[1].model_name])

\* Lines 411-414 and 431-435 (and 455-460, 477-481; 499-504, 521-525): the
\* class the map holds for the device's model; KeyError becomes VibinError
\* quoting the model.  Reading model_name of None (no device) raises
\* AttributeError, which nothing catches.
ByModelName(known, model_to, device) ==
    LET by_model == KnownByModel(known, model_to) IN
    IF device = None THEN RaisedNaming("AttributeError", <<>>)
    ELSE IF ~HasKey(by_model, device[1].model_name)
    THEN RaisedNaming("VibinError", <<device[1].model_name>>)
    ELSE Value(by_model[device[1].model_name])

\* Lines 395-436, 439-482 and 485-528: the three functions have the same
\* body.  `type` is None or <<name>>.
DetermineClass(known, model_to, device, type) ==
    IF type = None THEN ByModelName(known, model_to, device)
    ELSE ByTypeName(known, model_to, device, type[1])

\* A call of determine_<role>_class, with its package and override table as
\* they are when it runs.
DetermineRoleClass(role, known, model_to, device, type) ==
    /\ binding = None
    /\ binding' = Some([role |-> role, known |-> known, model_to |-> model_to,
                        device |-> device, type |-> type,
                        result |-> DetermineClass(known, model_to, device, type)])
    /\ UNCHANGED <<upnp_devices, scans, first_found, discovered, call>>
    /\ UNCHANGED <<amp_vars, vibin_vars, history_vars>>

\* The caller has the class (or the exception); the next call may start.
Bound ==
    /\ binding # None
    /\ binding' = None
    /\ UNCHANGED <<upnp_devices, scans, first_found, discovered, call>>
    /\ UNCHANGED <<amp_vars, vibin_vars, history_vars>>

DeterminableDevices == {None} \cup {Some(d) : d \in DeviceUniverse}

AskedTypes == {None} \cup {Some(t) : t \in TypeNames}

ClassStep ==
    \/ \E role \in Roles, known \in KnownLists, model_to \in OverrideTables :
         \E device \in DeterminableDevices, type \in AskedTypes :
           DetermineRoleClass(role, known, model_to, device, type)
    \/ Bound

-----------------------------------------------------------------------------
(* Vibin, the orchestrator: construction *)

\* Lines 71-77 and 123-129: the model names of the Streamer and MediaSource
\* implementations that inspect.getmembers finds.
StreamerModels == {"CXNv2"}

MediaModels == {"Asset UPnP"}

\* The streamer and media arguments of Vibin(...): Optional[str].
StreamerNames == {NoneHint, Str(""), Str("CXNv2"), Str("H120"), Str("Bedroom")}

MediaNames == {NoneHint, Str("NAS"), Str("Bedroom")}

\* The device picked among `known`, the devices of a known model: with a name
\* (a truthy string) the first one of that friendly name, without a name the
\* first one; None when there is none.
PickDevice(known, name) ==
    LET Named(device) == device.friendly_name = name.value IN
    IF ~IsBlank(name) THEN NextOrNone(SelectSeq(known, Named))
    ELSE IF Len(known) > 0 THEN Some(known[1])
    ELSE None

\* Lines 68-118: the streamer device, or VibinError when there is none.
DetermineStreamer(devices, streamer_name) ==
    LET Known(device) == device.model_name \in StreamerModels
        streamer_device == PickDevice(SelectSeq(devices, Known), streamer_name)
    IN  IF streamer_device = None THEN Raised("VibinError")
        ELSE Value(streamer_device[1])

\* Lines 120-159: the media source device.  VibinError when a name was given
\* and nothing matches; without a name and without a known media device,
\* line 155 reads media_device.model_name of None: AttributeError.
DetermineMediaSource(devices, media_name) ==
    LET Known(device) == device.model_name \in MediaModels
        media_device == PickDevice(SelectSeq(devices, Known), media_name)
    IN  IF media_device = None /\ ~IsBlank(media_name) THEN Raised("VibinError")
        ELSE IF media_device = None THEN Raised("AttributeError")
        ELSE Value(media_device[1])

\* No Vibin method has run.
NoOp == [op |-> "none", arg |-> <<>>, outcome |-> "none", message |-> <<>>,
         delivered |-> <<>>, calls |-> <<>>]

\* Lines 32-40 and 57: the fields of a new Vibin, no handler registered, and
\* a new streamer object that holds no subscription and has handled no event.
Fresh ==
    /\ handlers' = <<>>
    /\ subscriptions' = {}
    /\ streamer_vars' = None
    /\ vibin_op' = NoOp

NotConstructed ==
    [pc |-> "absent", streamer |-> NoneHint, media |-> NoneHint, devices |-> <<>>,
     outcome |-> "none", current_streamer |-> None, current_media_source |-> None]

\* Lines 22-66: Vibin(streamer, media): a discovery of its own (`devices` is
\* what upnpclient.discover returns), then the streamer, then the media
\* source; the first exception ends the construction.
Construct(streamer, media, devices) ==
    /\ vibin.pc = "absent"
    /\ LET s == DetermineStreamer(devices, streamer)
           m == DetermineMediaSource(devices, media)
           v == [NotConstructed EXCEPT !.streamer = streamer, !.media = media,
                                       !.devices = devices]
       IN  vibin' =
             IF s.raised
             THEN [v EXCEPT !.pc = "failed", !.outcome = s.exc]
             ELSE IF m.raised
             THEN [v EXCEPT !.pc = "failed", !.outcome = m.exc,
                            !.current_streamer = Some(s.value)]
             ELSE [v EXCEPT !.pc = "constructed", !.outcome = "returned",
                            !.current_streamer = Some(s.value),
                            !.current_media_source = Some(m.value)]
    /\ Fresh
    /\ UNCHANGED <<amp_vars, res_vars, history_vars>>

\* The process ends; another one may construct a Vibin.
Exit ==
    /\ vibin.pc # "absent"
    /\ vibin' = NotConstructed
    /\ Fresh
    /\ UNCHANGED <<amp_vars, res_vars, history_vars>>

InitVibin ==
    /\ vibin = NotConstructed
    /\ handlers = <<>>
    /\ subscriptions = {}
    /\ streamer_vars = None
    /\ vibin_op = NoOp

VibinStep ==
    \/ \E streamer \in StreamerNames, media \in MediaNames, devices \in Snapshots :
         Construct(streamer, media, devices)
    \/ Exit

-----------------------------------------------------------------------------
(* Vibin, the orchestrator: transport verbs and UPnP events *)

\* The most state-vars handlers registered.
MaxHandlers == 2

HandlerIds == {"h1", "h2"}

\* The services a streamer subscribes to, and the services events come from.
Services == {"AVTransport", "RenderingControl"}

EventServices == Services \cup {"ContentDirectory"}

EventPayloads == {"<e1/>", "<e2/>"}

\* How a transport method of the streamer ends: it returns (None), or
\* raises upnpclient's SOAPError(code, err).
SoapError(code, err) == [code |-> code, err |-> err]

Faults ==
    {None, Some(SoapError(701, "Transition not available")),
     Some(SoapError(402, "Invalid Args"))}

\* Lines 191-243: the verbs that wrap the streamer's call in
\* try/except SOAPError, with the words their message puts around the fault.
Wrapped ==
    [pause |-> "Unable to perform Pause transition",
     play |-> "Unable to perform Play transition",
     next_track |-> "Unable to perform Next transition",
     previous_track |-> "Unable to perform Previous transition",
     repeat |-> "Unable to interact with Repeat setting",
     shuffle |-> "Unable to interact with Shuffle setting"]

\* Lines 191-246: the seven transport verbs; seek (lines 245-246) calls the
\* streamer with no try around the call.
Verbs == DOMAIN Wrapped \cup {"seek"}

Done(op, arg, outcome, message) ==
    [op |-> op, arg |-> arg, outcome |-> outcome, message |-> message,
     delivered |-> <<>>, calls |-> <<>>]

\* A mutant of VerbResult: every verb calls the streamer bare, as seek does.
VerbResultBare(verb, fault) ==
    IF fault = None THEN Done(verb, <<>>, "returned", <<>>)
    ELSE Done(verb, <<>>, "SOAPError", <<fault[1].code, fault[1].err>>)

\* Lines 191-246: how the verb ends when the streamer's method ends with
\* `fault`: the VibinError of a wrapped verb carries
\* f"<words>: [{code}] {err}"; from seek the SOAPError itself escapes.
VerbResult(verb, fault) ==
    IF fault = None THEN Done(verb, <<>>, "returned", <<>>)
    ELSE IF verb \in DOMAIN Wrapped
    THEN Done(verb, <<>>, "VibinError",
              <<Wrapped[verb], fault[1].code, fault[1].err>>)
    ELSE Done(verb, <<>>, "SOAPError", <<fault[1].code, fault[1].err>>)

\* A Vibin method can be called: the object exists and the method that ran
\* last has returned to its caller.
Callable == vibin.pc = "constructed" /\ vibin_op = NoOp

\* One of the transport verbs is called.
Transport(verb, fault) ==
    /\ Callable
    /\ vibin_op' = VerbResult(verb, fault)
    /\ UNCHANGED <<vibin, handlers, subscriptions, streamer_vars>>
    /\ UNCHANGED <<amp_vars, res_vars, history_vars>>

\* Lines 394-395: on_state_vars_update appends the handler.
OnStateVarsUpdate(handler) ==
    /\ Callable
    /\ Len(handlers) < MaxHandlers
    /\ handlers' = Append(handlers, handler)
    /\ vibin_op' = Done("on_state_vars_update", <<handler>>, "returned", <<>>)
    /\ UNCHANGED <<vibin, subscriptions, streamer_vars>>
    /\ UNCHANGED <<amp_vars, res_vars, history_vars>>

\* Lines 266-267: subscribe() has the streamer subscribe; which services it
\* then holds is the streamer's business.
Subscribe(services) ==
    /\ Callable
    /\ subscriptions' = services
    /\ vibin_op' = Done("subscribe", <<>>, "returned", <<>>)
    /\ UNCHANGED <<vibin, handlers, streamer_vars>>
    /\ UNCHANGED <<amp_vars, res_vars, history_vars>>

\* Lines 270-288: state_vars, computed from the streamer's state vars.
StateVars(of_streamer) ==
    [streamer_name |-> vibin.current_streamer[1].friendly_name,
     media_source_name |-> vibin.current_media_source[1].friendly_name,
     streamer |-> of_streamer]

\* streamer.on_event(service_name, event): the streamer's state vars after.
OnEvent(service_name, event) == Some([service |-> service_name, event |-> event])

HandlerCall(handler, state) == [handler |-> handler, state |-> state]

\* Lines 415-416: every handler is called with the state vars as they are
\* when it is called.
CallHandlers(list, of_streamer) ==
    [i \in DOMAIN list |-> HandlerCall(list[i], StateVars(of_streamer))]

\* A mutant of Delivers: any subscription lets every event through.
DeliversAny(service_name, subs) == subs # {}

\* Lines 407-412: the event's service is one the streamer is subscribed to.
Delivers(service_name, subs) == service_name \in subs

\* A mutant of EventResult: the handlers are given the state vars as they
\* were before the event reached the streamer.
EventResultStale(service_name, event, subs, list, of_streamer) ==
    IF subs = {} THEN [of_streamer |-> of_streamer, delivered |-> <<>>, calls |-> <<>>]
    ELSE LET deliver == Delivers(service_name, subs)
             after == IF deliver THEN OnEvent(service_name, event) ELSE of_streamer
         IN  [of_streamer |-> after,
              delivered |-> IF deliver THEN <<<<service_name, event>>>> ELSE <<>>,
              calls |-> CallHandlers(list, of_streamer)]

\* Lines 402-416: with no subscription nothing happens; otherwise the event
\* goes to the streamer when its service is among the subscribed ones, and
\* then the handlers are called, whether the event was delivered or not.
EventResult(service_name, event, subs, list, of_streamer) ==
    IF subs = {} THEN [of_streamer |-> of_streamer, delivered |-> <<>>, calls |-> <<>>]
    ELSE LET deliver == Delivers(service_name, subs)
             after == IF deliver THEN OnEvent(service_name, event) ELSE of_streamer
         IN  [of_streamer |-> after,
              delivered |-> IF deliver THEN <<<<service_name, event>>>> ELSE <<>>,
              calls |-> CallHandlers(list, after)]

\* upnp_event(service_name, event) is called.
UpnpEvent(service_name, event) ==
    /\ Callable
    /\ LET r == EventResult(service_name, event, subscriptions, handlers,
                            streamer_vars)
       IN  /\ streamer_vars' = r.of_streamer
           /\ vibin_op' = [Done("upnp_event", <<service_name, event>>, "returned", <<>>)
                             EXCEPT !.delivered = r.delivered, !.calls = r.calls]
    /\ UNCHANGED <<vibin, handlers, subscriptions>>
    /\ UNCHANGED <<amp_vars, res_vars, history_vars>>

\* The method that ran has returned (or raised) to its caller.
Returned ==
    /\ vibin.pc = "constructed"
    /\ vibin_op # NoOp
    /\ vibin_op' = NoOp
    /\ UNCHANGED <<vibin, handlers, subscriptions, streamer_vars>>
    /\ UNCHANGED <<amp_vars, res_vars, history_vars>>

\* A Vibin as Vibin() constructs it when the discovery finds a known
\* streamer and a known media source.
ConstructedVibin ==
    [NotConstructed EXCEPT !.pc = "constructed", !.devices = <<CXN, NAS>>,
                           !.outcome = "returned",
                           !.current_streamer = Some(CXN),
                           !.current_media_source = Some(NAS)]

InitConstructed ==
    /\ vibin = ConstructedVibin
    /\ handlers = <<>>
    /\ subscriptions = {}
    /\ streamer_vars = None
    /\ vibin_op = NoOp

OperateStep ==
    \/ \E verb \in Verbs, fault \in Faults : Transport(verb, fault)
    \/ \E handler \in HandlerIds : OnStateVarsUpdate(handler)
    \/ \E services \in SUBSET Services : Subscribe(services)
    \/ \E service_name \in EventServices, event \in EventPayloads :
         UpnpEvent(service_name, event)
    \/ Returned

-----------------------------------------------------------------------------
(* The state machines *)

\* The adapter as constructed with any choice of callbacks, and the resolver
\* module as imported.
InitAdapter == InitAmp /\ InitResolve /\ InitVibin

\* The amplifier adapter, with the resolver at rest.
SpecAmp == InitAdapter /\ [][AmpStep]_vars

\* The adapter's worker thread beside its callers.
SpecThreads == InitAdapter /\ [][ThreadStep]_vars

\* The resolver module as imported, beside an adapter with both callbacks.
InitResolver == InitResolve /\ InitAmp /\ on_connect /\ on_update /\ InitVibin

\* The resolver, with the adapter as constructed.
SpecResolve == InitResolver /\ [][ResolveStep]_vars

\* The class resolvers, called with any package and override table.
SpecClasses == InitResolver /\ [][ClassStep]_vars

\* The resolver called again and again, the first call that ended remembered.
SpecRepeat == InitResolver /\ [][RepeatStep]_vars

\* No Vibin yet, beside an adapter with both callbacks and the resolver module
\* as imported.
InitOrchestrator == InitVibin /\ InitAmp /\ on_connect /\ on_update /\ InitResolve

\* The orchestrator, with the adapter and the resolver at rest.
SpecVibin == InitOrchestrator /\ [][VibinStep]_vars

\* A constructed Vibin, beside an adapter with both callbacks and the
\* resolver module as imported.
InitOperate == InitConstructed /\ InitAmp /\ on_connect /\ on_update /\ InitResolve

\* The methods of a constructed Vibin.
SpecOperate == InitOperate /\ [][OperateStep]_vars

-----------------------------------------------------------------------------
(* Device resolution: what the claims speak of *)

ReturnedNormally(c) == c.pc = "done" /\ c.outcome = "returned"

\* (* C1 *) determine_devices either fails with an error or returns a triple
\* whose streamer is present: whatever the hints, the discovered devices and
\* the probe's answer, it never returns normally with the streamer absent.
C1_ReturnsWithStreamer ==
    ReturnedNormally(call) => call.streamer # None

\* (* C2 *) The network is scanned at most once: every call of
\* _discover_upnp_devices after the first returns the devices the first one
\* found, without another scan, whatever timeout it is given and also when
\* the first scan found nothing.
C2_ScansAtMostOnce ==
    /\ scans <= 1
    /\ (discovered # None)
       => /\ scans = 1
          /\ first_found # None
          /\ discovered[1].devices = first_found[1].devices

\* C2's case: the first scan found nothing, and a later call with another
\* timeout got the same empty list with still one scan made.
C2_Witness ==
    /\ scans = 1
    /\ first_found # None
    /\ discovered # None
    /\ first_found[1].devices = <<>>
    /\ discovered[1].timeout # first_found[1].timeout
    /\ discovered[1].devices = <<>>

\* A step in which determine_devices is called and resolves the streamer.
StreamerStep == call.pc = "idle" /\ call'.pc # "idle"

\* The discovered devices whose friendly name is exactly `name`, in
\* discovery order.
NamedDevices(name, devices) ==
    LET IsNamed(device) == device.friendly_name = name IN
    SelectSeq(devices, IsNamed)

\* Friendly-name matching of the streamer hint of call c against the
\* discovery snapshot: the first device of that name is bound, or the call
\* fails with an error and binds nothing.
MatchedByFriendlyName(c, cache) ==
    /\ cache # None
    /\ LET named == NamedDevices(c.streamer_input.value, cache[1]) IN
       IF named = <<>>
       THEN c.outcome = "VibinError" /\ c.streamer = None
       ELSE c.outcome = "running" /\ c.streamer = Some(named[1])

AnsweredNot200(probe) == probe.kind = "response" /\ probe.status_code # 200

\* (* C11 *) When the streamer hint is a bare host or name and the vendor
\* probe is answered with a status other than 200, streamer resolution goes
\* on to friendly-name matching: it returns the discovered device named like
\* the hint, or fails with an error when there is none.
C11_Not200FallsThroughToName ==
    [][(/\ StreamerStep
        /\ IsBareName(call'.streamer_input)
        /\ AnsweredNot200(call'.probe))
       => MatchedByFriendlyName(call', upnp_devices')]_vars

\* The entries of a probe's device list that name the preferred vendor.
PreferredEntries(entries) ==
    LET IsPreferred(entry) ==
            /\ "manufacturer" \in DOMAIN entry
            /\ entry["manufacturer"] = "Cambridge Audio"
    IN  SelectSeq(entries, IsPreferred)

\* A 200 answer whose body is not JSON, or lacks data.devices, a
\* preferred-vendor entry, or that entry's description_url.
UnusableBody(body) ==
    \/ body.kind # "json"
    \/ "data" \notin DOMAIN body.value
    \/ "devices" \notin DOMAIN body.value["data"]
    \/ PreferredEntries(body.value["data"]["devices"]) = <<>>
    \/ "description_url"
         \notin DOMAIN PreferredEntries(body.value["data"]["devices"])[1]

TimedOutOrUnusable(probe) ==
    \/ probe.kind = "Timeout"
    \/ probe.kind = "response" /\ probe.status_code = 200 /\ UnusableBody(probe.body)

\* (* C12 *) When the streamer hint is a bare host or name and the vendor
\* probe times out, or answers 200 with a body that is not JSON or lacks
\* data.devices, a preferred-vendor entry or a description_url, streamer
\* resolution does not fail at the probe: it goes on to friendly-name
\* matching against the discovery snapshot.
C12_ProbeFailureFallsThroughToName ==
    [][(/\ StreamerStep
        /\ IsBareName(call'.streamer_input)
        /\ TimedOutOrUnusable(call'.probe))
       => MatchedByFriendlyName(call', upnp_devices')]_vars

\* (* C13 *) When streamer resolution comes to friendly-name matching (here:
\* in the orchestrator, which is given a streamer name) and no discovered
\* device has exactly that friendly name, it fails with an error and binds no
\* device; when some device matches exactly, that device is bound.
C13_NameMatchingBindsOrFails ==
    (vibin.pc # "absent" /\ ~IsBlank(vibin.streamer))
    => LET named == NamedDevices(vibin.streamer.value, vibin.devices) IN
       IF named = <<>>
       THEN vibin.outcome = "VibinError" /\ vibin.current_streamer = None
       ELSE vibin.current_streamer = Some(named[1])

\* (* C14 *) Whenever streamer resolution succeeds, determine_devices returns
\* normally: a failure to resolve the media server or the amplifier (no
\* device of the hinted name, an unreachable URL, a failed or malformed
\* listing) leaves that role absent and raises nothing.
C14_OptionalRolesNeverAbort ==
    (call.pc = "done" /\ call.streamer # None) => call.outcome = "returned"

\* A step in which determine_devices resolves the amplifier and ends.
AmplifierStep == call.pc = "amplifier" /\ call'.pc = "done"

\* No hint for an optional role: None, "" or True.
NoHint(hint) == hint.kind = "None" \/ hint = Str("") \/ hint = Bool(TRUE)

\* The devices that carry the renderer tag, in discovery order.
Renderers(devices) ==
    LET HasRendererTag(device) ==
            device.device_type = "urn:schemas-upnp-org:device:MediaRenderer:1"
    IN  SelectSeq(devices, HasRendererTag)

\* (* C15 *) With no amplifier hint and exactly one renderer-type device in
\* the discovery snapshot, amplifier resolution returns that device, also
\* when it is the streamer's device.
C15_OnlyRendererIsAmplifier ==
    [][(/\ AmplifierStep
        /\ NoHint(call'.amplifier_input)
        /\ upnp_devices' # None
        /\ Len(Renderers(upnp_devices'[1])) = 1)
       => /\ call'.outcome = "returned"
          /\ call'.amplifier = Some(Renderers(upnp_devices'[1])[1])]_vars

\* C15's case: the one renderer discovered is the streamer, and it was
\* returned as the amplifier too.
C15_Witness ==
    /\ ReturnedNormally(call)
    /\ NoHint(call.amplifier_input)
    /\ upnp_devices # None
    /\ Len(Renderers(upnp_devices[1])) = 1
    /\ call.streamer # None
    /\ call.amplifier = call.streamer

\* The devices other than the one at `location`, in the order given.
DevicesNotAt(devices, location) ==
    LET IsOther(device) == device.location # location IN
    SelectSeq(devices, IsOther)

\* (* C16 *) With no amplifier hint (and a streamer resolved): when more than
\* one renderer-type device is discovered, amplifier resolution returns the
\* first of them, in discovery order, that is not the streamer's device, so
\* never the streamer's device; when none is discovered it returns absent
\* without an error.
C16_AmplifierIsNotTheStreamer ==
    [][(/\ AmplifierStep
        /\ NoHint(call'.amplifier_input)
        /\ call.streamer # None
        /\ upnp_devices' # None)
       => LET renderers == Renderers(upnp_devices'[1])
              others == DevicesNotAt(renderers, call.streamer[1].location)
          IN  /\ Len(renderers) > 1
                 => /\ call'.outcome = "returned"
                    /\ call'.amplifier = Some(others[1])
              /\ Len(renderers) = 0
                 => /\ call'.outcome = "returned"
                    /\ call'.amplifier = None]_vars

\* The discovered devices of the preferred vendor that carry the renderer
\* tag, in discovery order.
PreferredRenderers(devices) ==
    LET IsPreferred(device) == device.manufacturer = "Cambridge Audio" IN
    SelectSeq(Renderers(devices), IsPreferred)

Elements(list) == {list[i] : i \in DOMAIN list}

\* (* C17 *) With no streamer hint (None or the empty string), streamer
\* resolution returns only a discovered device of the preferred vendor that
\* carries the renderer tag; when no discovered device is both, it fails
\* with an error.
C17_AutoStreamerIsPreferredRenderer ==
    [][(StreamerStep /\ IsBlank(call'.streamer_input))
       => /\ upnp_devices' # None
          /\ IF PreferredRenderers(upnp_devices'[1]) = <<>>
             THEN call'.outcome = "VibinError" /\ call'.streamer = None
             ELSE /\ call'.outcome = "running"
                  /\ call'.streamer # None
                  /\ call'.streamer[1]
                       \in Elements(PreferredRenderers(upnp_devices'[1]))]_vars

\* C17's case: no hint, and the devices discovered are a renderer of another
\* vendor and a server; the call ended with the error.
C17_Witness ==
    /\ call.pc = "done"
    /\ call.outcome = "VibinError"
    /\ IsBlank(call.streamer_input)
    /\ call.streamer = None
    /\ upnp_devices # None
    /\ Len(upnp_devices[1]) = 2
    /\ Len(Renderers(upnp_devices[1])) = 1

\* (* C18 *) With no streamer hint, the device streamer resolution returns is
\* the unique match: whenever it returns a device, no other discovered device
\* is of the preferred vendor with the renderer tag as well.
C18_AutoStreamerIsUnique ==
    [][(/\ StreamerStep
        /\ IsBlank(call'.streamer_input)
        /\ call'.streamer # None)
       => Len(PreferredRenderers(upnp_devices'[1])) = 1]_vars

\* The hints that are URLs, and the device (if any) that answers at each.
UrlHints == {Str(d.location) : d \in DeviceUniverse} \cup {Str(GoneUrl)}

Answers(url) == \E d \in DeviceUniverse : d.location = url

MediaServerStep == call.pc = "media_server" /\ call'.pc # "media_server"

\* What a role's resolution from the URL `url` must have done: nothing
\* scanned or looked up, no probe and no listing asked for, and either the
\* device that answers at the URL bound to the role (`bound`, the role's
\* device after the step) or a VibinError whose message quotes the URL.
FetchedOnly(url, bound) ==
    /\ UNCHANGED <<upnp_devices, scans, first_found, discovered>>
    /\ call'.probe = NotMade
    /\ call'.listing = NotMade
    /\ IF Answers(url)
       THEN /\ call'.outcome \in {"running", "returned"}
            /\ bound # None
            /\ bound[1].location = url
       ELSE /\ call'.pc = "done"
            /\ call'.outcome = "VibinError"
            /\ url \in Elements(call'.named)

\* (* C19 *) For each role, a hint that is a URL is resolved only by fetching
\* the device description from that URL: no discovery scan and no vendor
\* probe is made, and when nothing answers at the URL determine_devices fails
\* with an error that names the URL.
C19_UrlHintOnlyFetches ==
    [][/\ (StreamerStep /\ call'.streamer_input \in UrlHints)
            => FetchedOnly(call'.streamer_input.value, call'.streamer)
       /\ (MediaServerStep /\ call'.media_server_input \in UrlHints)
            => FetchedOnly(call'.media_server_input.value, call'.media_server)
       /\ (AmplifierStep /\ call'.amplifier_input \in UrlHints)
            => FetchedOnly(call'.amplifier_input.value, call'.amplifier)]_vars

\* The streamer was fetched from its URL and the media server's URL did not
\* answer, all without a scan.
C19_Witness ==
    /\ call.pc = "done"
    /\ call.outcome = "VibinError"
    /\ call.streamer # None
    /\ call.media_server_input = Str(GoneUrl)
    /\ GoneUrl \in Elements(call.named)
    /\ upnp_devices = None

\* The call that has just ended was given the same hints and the same
\* answers as the remembered one, and left the same snapshot cached.
SameAsEarlier ==
    /\ call.pc = "done"
    /\ earlier # None
    /\ earlier[1].inputs = inputs
    /\ earlier[1].snapshot = upnp_devices

Servers(devices) ==
    LET HasServerTag(device) ==
            device.device_type = "urn:schemas-upnp-org:device:MediaServer:1"
    IN  SelectSeq(devices, HasServerTag)

\* The streamer answered with a list of devices that all give a description
\* URL at which a device answers.
ListsDevices(listing) ==
    /\ listing.kind = "response"
    /\ listing.body.kind = "json"
    /\ "data" \in DOMAIN listing.body.value
    /\ "devices" \in DOMAIN listing.body.value["data"]
    /\ \A i \in DOMAIN listing.body.value["data"]["devices"] :
         LET entry == listing.body.value["data"]["devices"][i] IN
         "description_url" \in DOMAIN entry /\ Answers(entry["description_url"])

\* The devices the streamer listed, in the order of its list.
ListedDevices(listing) ==
    LET entries == listing.body.value["data"]["devices"] IN
    [i \in DOMAIN entries |->
        CHOOSE d \in DeviceUniverse : d.location = entries[i]["description_url"]]

\* The role is bound to the first device of `devices` (the same device,
\* whichever object describes it), or to nothing when there is none.
FirstOrAbsent(bound, devices) ==
    IF devices = <<>> THEN bound = None
    ELSE bound # None /\ bound[1].location = devices[1].location

FromPreferredVendor(streamer_device) ==
    streamer_device # None /\ streamer_device[1].manufacturer = "Cambridge Audio"

-----------------------------------------------------------------------------
(* Class resolution: what the claims speak of *)

\* The known classes of the name asked for, and those that declare a model.
ClassesNamed(known, name) == {c \in Elements(known) : c.name = name}

ClassesDeclaring(known, model) == {c \in Elements(known) : c.model_name = model}

\* The model is registered: a known class declares it or the override table
\* maps it.
Registered(b, model) ==
    ClassesDeclaring(b.known, model) # {} \/ model \in DOMAIN b.model_to

FailedNaming(result, text) ==
    /\ result.raised
    /\ result.exc = "VibinError"
    /\ text \in Elements(result.named)

\* (* C21 *) For each role, with an explicit type name class resolution does
\* not look at the device's model: it returns the known class of that name,
\* and fails with VibinError when no known class has that name, also when the
\* device's model is registered.
C21_TypeNameBypassesModel ==
    (binding # None /\ binding[1].type # None) =>
        LET b == binding[1]
            named == ClassesNamed(b.known, b.type[1])
        IN  IF named = {} THEN FailedNaming(b.result, b.type[1])
            ELSE ~b.result.raised /\ b.result.value \in named

\* An unknown type name was asked for a device whose model is registered.
C21_Witness ==
    /\ binding # None
    /\ binding[1].type # None
    /\ binding[1].device # None
    /\ ClassesNamed(binding[1].known, binding[1].type[1]) = {}
    /\ Registered(binding[1], binding[1].device[1].model_name)
    /\ binding[1].result.raised

\* (* C22 *) For each role, with no explicit type name class resolution
\* returns a class registered for the bound device's model (declared by a
\* known class or mapped by the override table), and fails with VibinError
\* naming that model when neither registers it.
C22_ModelLookupOrError ==
    (binding # None /\ binding[1].type = None /\ binding[1].device # None) =>
        LET b == binding[1]
            model == b.device[1].model_name
        IN  IF Registered(b, model)
            THEN /\ ~b.result.raised
                 /\ \/ b.result.value \in ClassesDeclaring(b.known, model)
                    \/ model \in DOMAIN b.model_to /\ b.result.value = b.model_to[model]
            ELSE FailedNaming(b.result, model)

\* No type name and a device whose model nothing registers, in a package
\* that is not empty.
C22_Witness ==
    /\ binding # None
    /\ binding[1].type = None
    /\ binding[1].device # None
    /\ binding[1].known # <<>>
    /\ ~Registered(binding[1], binding[1].device[1].model_name)
    /\ binding[1].result.raised

\* (* C23 *) For each role, an entry of the override table wins in
\* model-based resolution: when the table maps the device's model M to class
\* X, resolution with no explicit type yields X, also when a known class
\* declares M as its own model.
C23_OverrideWins ==
    (/\ binding # None
     /\ binding[1].type = None
     /\ binding[1].device # None
     /\ binding[1].device[1].model_name \in DOMAIN binding[1].model_to)
    => binding[1].result = Value(binding[1].model_to[binding[1].device[1].model_name])

\* The override table maps the device's model to a class other than the
\* known ones that declare it.
C23_Witness ==
    /\ binding # None
    /\ binding[1].type = None
    /\ binding[1].device # None
    /\ LET b == binding[1]
           model == b.device[1].model_name
       IN  /\ model \in DOMAIN b.model_to
           /\ ClassesDeclaring(b.known, model) # {}
           /\ b.model_to[model] \notin ClassesDeclaring(b.known, model)
           /\ ~b.result.raised

-----------------------------------------------------------------------------
(* The orchestrator: what the claims speak of *)

TransportVerbs ==
    {"play", "pause", "next_track", "previous_track", "seek", "repeat", "shuffle"}

\* (* C24 *) No vendor-specific fault escapes a transport verb: each of play,
\* pause, next, previous, seek, repeat and shuffle either returns or raises
\* the uniform VibinError, which carries the operation and the fault's code
\* and message.
C24_NoVendorFaultEscapes ==
    vibin_op.op \in TransportVerbs =>
        \/ vibin_op.outcome = "returned"
        \/ /\ vibin_op.outcome = "VibinError"
           /\ Len(vibin_op.message) = 3

\* The event a upnp_event call was given.
EventOf(op) == <<op.arg[1], op.arg[2]>>

\* (* C25 *) upnp_event delivers the event to the streamer if and only if
\* the streamer holds a subscription whose service name is the event's: with
\* no subscription or with another service name the streamer's event handler
\* is not called, and otherwise it is called once with that event.
C25_DeliveredIffSubscribed ==
    vibin_op.op = "upnp_event" =>
        IF vibin_op.arg[1] \in subscriptions
        THEN vibin_op.delivered = <<EventOf(vibin_op)>>
        ELSE vibin_op.delivered = <<>>

\* An event of a service the streamer is not subscribed to, while it is
\* subscribed to another one: nothing was delivered.
C25_Witness ==
    /\ vibin_op.op = "upnp_event"
    /\ subscriptions # {}
    /\ vibin_op.arg[1] \notin subscriptions
    /\ vibin_op.delivered = <<>>

\* (* C26 *) Every event delivered to the streamer is followed, within the
\* same upnp_event call, by one invocation per registered state-vars handler,
\* in registration order, each given the state vars as they are after the
\* delivery (the streamer's part of them is the event just handled).
C26_DeliveryThenEveryHandler ==
    (vibin_op.op = "upnp_event" /\ vibin_op.delivered # <<>>) =>
        /\ Len(vibin_op.calls) = Len(handlers)
        /\ \A i \in DOMAIN handlers :
             /\ vibin_op.calls[i].handler = handlers[i]
             /\ vibin_op.calls[i].state.streamer =
                  Some([service |-> vibin_op.arg[1], event |-> vibin_op.arg[2]])

\* A delivered event with two different handlers registered.
C26_Witness ==
    /\ vibin_op.op = "upnp_event"
    /\ vibin_op.delivered # <<>>
    /\ Len(handlers) = 2
    /\ handlers[1] # handlers[2]
    /\ Len(vibin_op.calls) = 2

\* The discovered devices whose model a Streamer (a MediaSource)
\* implementation handles.
OfModel(devices, models) ==
    LET Handled(device) == device.model_name \in models IN
    SelectSeq(devices, Handled)

\* (* C30 *) Vibin(...) with a streamer that resolves, no media hint and no
\* known media-source device discovered treats the media source as optional:
\* the construction is not aborted, by VibinError or by any other fault, and
\* the Vibin has its streamer and no media source.
C30_MediaSourceIsOptional ==
    (/\ vibin.pc # "absent"
     /\ vibin.current_streamer # None
     /\ IsBlank(vibin.media)
     /\ OfModel(vibin.devices, {"Asset UPnP"}) = <<>>)
    => /\ vibin.pc = "constructed"
       /\ vibin.outcome = "returned"
       /\ vibin.current_media_source = None

-----------------------------------------------------------------------------
(* StreamMagic: what the claims speak of *)

HandledMessage(op) == op.op = "_handle_state_message"

\* The capability a command needs.
Required ==
    [volume |-> "volume", volume_up |-> "volume_up_down",
     volume_down |-> "volume_up_down", mute |-> "mute", mute_toggle |-> "mute"]

MutatingCommands == DOMAIN Required

CapabilitySet(state) == {state.actions[i] : i \in 1..Len(state.actions)}

IsObject(message) == message.kind = "json"

HasData(message) ==
    /\ IsObject(message)
    /\ "params" \in DOMAIN message.value
    /\ "data" \in DOMAIN message.value["params"]

DataOf(message) == message.value["params"]["data"]

\* The fields the translation rule selected by the data reads.
FieldsRead(data) ==
    IF "pre_amp_mode" \notin DOMAIN data THEN {"pre_amp_mode"}
    ELSE IF data["pre_amp_mode"]
         THEN {"pre_amp_mode", "power", "mute", "volume_percent"}
         ELSE {"pre_amp_mode", "cbus", "power"}

\* Parseable, with path, type, params.data and every field its rule reads.
WellFormed(message) ==
    /\ HasData(message)
    /\ {"path", "type"} \subseteq DOMAIN message.value
    /\ FieldsRead(DataOf(message)) \subseteq DOMAIN DataOf(message)

Matches(message) ==
    /\ message.value["path"] = "/zone/state"
    /\ message.value["type"] = "update"

Accepted(message) == WellFormed(message) /\ Matches(message)

OnOff(flag) == IF flag THEN <<"on">> ELSE <<"off">>

\* (* C3 *) A mutating command (volume, volume_up, volume_down, mute,
\* mute_toggle) whose capability is not in the current capability set issues
\* no outbound request, leaves the canonical state as it was and returns
\* without an error.
C3_AbsentCapabilityIsNoOp ==
    [][\A c \in MutatingCommands :
          (last_op'.op = c /\ Required[c] \notin CapabilitySet(device_state))
          => /\ http_out' = <<>>
             /\ device_state' = device_state
             /\ last_op'.outcome = "returned"]_vars

\* C3's case: the device delegates the volume to the control bus (so "volume"
\* is absent and "volume_up_down" present) and a volume-set command ran.
C3_Witness ==
    /\ last_op.op = "volume"
    /\ CapabilitySet(device_state) = {"volume_up_down"}
    /\ http_out = <<>>

\* (* C4 *) A command whose capability is present issues exactly one outbound
\* request and leaves the canonical state unchanged; the canonical state
\* changes only in a step that handles an inbound state message.
C4_CommandSendsOnceAndStateOnlyByMessage ==
    [][/\ \A c \in MutatingCommands :
            (last_op'.op = c /\ Required[c] \in CapabilitySet(device_state))
            => (Len(http_out') = 1 /\ device_state' = device_state)
       /\ (device_state' # device_state => HandledMessage(last_op'))]_vars

\* C4's case: mute_toggle ran with "mute" present and sent its one request.
C4_Witness ==
    /\ last_op.op = "mute_toggle"
    /\ "mute" \in CapabilitySet(device_state)
    /\ Len(http_out) = 1
    /\ http_out[1].param = "mute"

\* (* C5 *) A well-formed inbound message whose path is not "/zone/state" or
\* whose type is not "update" is dropped: the snapshot stays as it was and
\* the update callback (here: one that is registered) is not invoked.
C5_MismatchIsDropped ==
    [][(/\ HandledMessage(last_op')
        /\ on_update
        /\ WellFormed(last_op'.arg.message)
        /\ ~Matches(last_op'.arg.message))
       => (device_state' = device_state /\ callbacks' = <<>>)]_vars

\* Lacks something the claim names: not JSON, or no path, type, params.data
\* or a field its translation rule reads.
Malformed(message) == ~WellFormed(message)

\* (* C6 *) A malformed state message (not JSON, or JSON lacking path, type,
\* params.data or a field the selected rule reads) leaves the snapshot
\* unchanged and makes no invocation of the (registered) update callback.
C6_MalformedLeavesStateAlone ==
    [][(HandledMessage(last_op') /\ on_update /\ Malformed(last_op'.arg.message))
       => (device_state' = device_state /\ callbacks' = <<>>)]_vars

\* (* C7 *) For every malformed or partial message the handler returns
\* normally: no exception escapes to the websocket worker (here for a JSON
\* object that lacks a key, with an update callback registered, so that the
\* callback is no source of a fault).
C7_NoFaultEscapes ==
    (/\ HandledMessage(last_op)
     /\ on_update
     /\ IsObject(last_op.arg.message)
     /\ Malformed(last_op.arg.message))
    => last_op.outcome = "returned"

\* The snapshot the translation rules give for an accepted message's data,
\* with nothing taken from an earlier snapshot.
SnapshotOf(data) ==
    IF data["pre_amp_mode"]
    THEN [name |-> friendly_name,
          actions |-> <<"volume", "mute", "volume_up_down">>,
          power |-> OnOff(data["power"]), mute |-> OnOff(data["mute"]),
          volume |-> <<[num |-> data["volume_percent"], den |-> 100]>>,
          sources |-> <<>>]
    ELSE [name |-> friendly_name,
          actions |-> IF data["cbus"] \in {"amplifier", "receiver"}
                      THEN <<"volume_up_down">> ELSE <<>>,
          power |-> OnOff(data["power"]), mute |-> <<>>, volume |-> <<>>,
          sources |-> <<>>]

\* (* C8 *) On every accepted state message the whole snapshot is replaced by
\* the one computed from that message alone, and the registered update
\* callback is invoked exactly once, with ("System", the new snapshot).
C8_AcceptedReplacesAndNotifiesOnce ==
    [][(HandledMessage(last_op') /\ Accepted(last_op'.arg.message) /\ on_update)
       => /\ device_state' = SnapshotOf(DataOf(last_op'.arg.message))
          /\ callbacks' = <<[callback |-> "on_update",
                             args |-> <<"System", device_state'>>]>>]_vars

\* C8's case: an accepted control-bus message was handled with a callback
\* registered; the snapshot has no mute or volume left and was published.
C8_Witness ==
    /\ HandledMessage(last_op)
    /\ last_op.outcome = "returned"
    /\ Accepted(last_op.arg.message)
    /\ on_update
    /\ ~DataOf(last_op.arg.message)["pre_amp_mode"]
    /\ device_state.mute = None
    /\ Len(callbacks) = 1
    /\ callbacks[1].args[2] = device_state

\* (* C9 *) After an accepted message with pre_amp_mode true, whatever its
\* cbus, the capability set is exactly {volume, mute, volume_up_down}, power
\* and mute are "on" iff the message's power and mute are true (else "off"),
\* and the volume equals volume_percent / 100.
C9_PreAmpTranslation ==
    (/\ HandledMessage(last_op)
     /\ Accepted(last_op.arg.message)
     /\ DataOf(last_op.arg.message)["pre_amp_mode"])
    => LET data == DataOf(last_op.arg.message) IN
       /\ CapabilitySet(device_state) = {"volume", "mute", "volume_up_down"}
       /\ Len(device_state.actions) = 3
       /\ device_state.power = OnOff(data["power"])
       /\ device_state.mute = OnOff(data["mute"])
       /\ Len(device_state.volume) = 1
       /\ device_state.volume[1].num * 100
            = data["volume_percent"] * device_state.volume[1].den

\* C9's case: pre-amp mode with 42 percent, muted, on a device whose control
\* bus is set to "amplifier" all the same.
C9_Witness ==
    /\ HandledMessage(last_op)
    /\ last_op.outcome = "returned"
    /\ Accepted(last_op.arg.message)
    /\ DataOf(last_op.arg.message)["pre_amp_mode"]
    /\ "cbus" \in DOMAIN DataOf(last_op.arg.message)
    /\ DataOf(last_op.arg.message)["cbus"] = "amplifier"
    /\ DataOf(last_op.arg.message)["volume_percent"] = 42
    /\ device_state.volume = <<[num |-> 42, den |-> 100]>>
    /\ device_state.mute = <<"on">>

\* (* C10 *) After an accepted message with pre_amp_mode false, mute and
\* volume are absent, power is "on"/"off" from the message's power, and the
\* capability set is exactly {volume_up_down} when cbus is "amplifier" or
\* "receiver" and empty for every other cbus.
C10_NoPreAmpTranslation ==
    (/\ HandledMessage(last_op)
     /\ Accepted(last_op.arg.message)
     /\ ~DataOf(last_op.arg.message)["pre_amp_mode"])
    => LET data == DataOf(last_op.arg.message) IN
       /\ device_state.mute = None
       /\ device_state.volume = None
       /\ device_state.power = OnOff(data["power"])
       /\ CapabilitySet(device_state)
            = IF data["cbus"] \in {"amplifier", "receiver"}
              THEN {"volume_up_down"} ELSE {}
       /\ Len(device_state.actions) <= 1

\* C10's case: a device that hands the volume to a receiver, powered off.
C10_Witness ==
    /\ HandledMessage(last_op)
    /\ last_op.outcome = "returned"
    /\ Accepted(last_op.arg.message)
    /\ ~DataOf(last_op.arg.message)["pre_amp_mode"]
    /\ DataOf(last_op.arg.message)["cbus"] = "receiver"
    /\ device_state.power = <<"off">>
    /\ CapabilitySet(device_state) = {"volume_up_down"}

ConnectStep == ~connected /\ connected'

DisconnectStep == connected /\ ~connected'

SubscribeText == [path |-> "/zone/state", params |-> [update |-> 1]]

\* (* C29 *) On every connection establishment, in any sequence of connects
\* and disconnects, the adapter sends exactly one subscribe message (path
\* "/zone/state", update 1) and then calls the connect callback, once, when
\* one is registered; handling a connect or a disconnect never changes the
\* canonical state.
C29_ConnectSubscribesOnce ==
    [][/\ ConnectStep =>
            /\ ws_out' = <<SubscribeText>>
            /\ http_out' = <<>>
            /\ Len(callbacks') = (IF on_connect THEN 1 ELSE 0)
            /\ \A i \in DOMAIN callbacks' : callbacks'[i].callback = "on_connect"
            /\ last_op'.arg = (IF on_connect THEN <<"send", "on_connect">>
                                            ELSE <<"send">>)
            /\ device_state' = device_state
       /\ DisconnectStep => device_state' = device_state]_vars

\* A reconnection, with a connect callback registered, after the canonical
\* state was set by a message.
C29_Witness ==
    /\ last_op.op = "_initialize_websocket"
    /\ on_connect
    /\ callbacks # <<>>
    /\ device_state.power # <<>>

\* The snapshot of an adapter that has accepted no message.
NothingKnown ==
    [name |-> friendly_name, actions |-> <<>>, power |-> <<>>, mute |-> <<>>,
     volume |-> <<>>, sources |-> <<>>]

\* (* C28 *) With the worker handling messages beside the callers, every
\* read of device_state returns a complete snapshot: the initial one or the
\* full translation of one single message, never a mix of the fields of two.
C28_ReadsAreWholeSnapshots ==
    reads # None =>
        \/ reads[1] = NothingKnown
        \/ \E data \in DataFull : reads[1] = SnapshotOf(data)

\* A caller holds the snapshot of one message while the worker, in the
\* handler, has stored the snapshot of another.
C28_Witness ==
    /\ reads # None
    /\ reads[1] # NothingKnown
    /\ worker.pc = "notify"
    /\ device_state # reads[1]
    /\ device_state.actions # reads[1].actions

\* The capability sets the translation rules can give.
CapabilityShapes == {{}, {"volume_up_down"}, {"volume", "mute", "volume_up_down"}}

OnOrOff == {<<"on">>, <<"off">>}

\* The capabilities agree with the fields of the same snapshot.
CapabilitiesAgree(state) ==
    /\ CapabilitySet(state) \in CapabilityShapes
    /\ ("volume" \in CapabilitySet(state)) <=> ("mute" \in CapabilitySet(state))
    /\ ("mute" \in CapabilitySet(state)) <=> (state.mute \in OnOrOff)
    /\ (state.mute \in OnOrOff) <=> (state.volume # <<>>)
    /\ state.power \in OnOrOff \cup {<<>>}

\* (* C31 *) In every reachable state the capability set is {}, or
\* {volume_up_down}, or {volume, mute, volume_up_down}; "volume" is in it iff
\* "mute" is in it iff the snapshot's mute is "on" or "off" iff the
\* snapshot's volume is present; and the power is "on" or "off" after every
\* accepted message and in every state after one where it was known, so
\* that it is unknown only before the first accepted message.
C31_CapabilitiesAgreeWithSnapshot ==
    /\ [](CapabilitiesAgree(device_state))
    /\ [][(\/ device_state.power # <<>>
           \/ (HandledMessage(last_op') /\ Accepted(last_op'.arg.message)))
          => device_state'.power \in OnOrOff]_vars

\* C31's case: after a pre-amp snapshot (all three capabilities, mute and
\* volume known) an accepted message of a device without volume control
\* left no capability, no mute and no volume, and the power known.
C31_Witness ==
    /\ HandledMessage(last_op)
    /\ Accepted(last_op.arg.message)
    /\ ~DataOf(last_op.arg.message)["pre_amp_mode"]
    /\ DataOf(last_op.arg.message)["cbus"] = "off"
    /\ CapabilitySet(device_state) = {}
    /\ device_state.mute = <<>>
    /\ device_state.power = <<"off">>

\* A step in which a command's request goes out.
RequestStep == caller.pc = "request" /\ caller'.pc = "idle"

\* The request is made on the strength of a capability the snapshot current
\* at that moment contains.
StillCapable == caller.action \in CapabilitySet(device_state)

\* mute_toggle sends the opposite of the mute of the snapshot its capability
\* test was made on.
TogglesTheSeenMute ==
    caller.name = "mute_toggle"
    => (http_out'[1].value = "false" <=> caller.seen.mute = <<"on">>)

\* (* C32 *) With the worker replacing the snapshot beside the callers, a
\* command acts on one snapshot only: the value mute_toggle sends comes from
\* the snapshot its capability test was made on ("false" exactly when that
\* snapshot's mute is "on"), and no request goes out for a capability that
\* the snapshot current at the moment of the request does not contain.
C32_CommandActsOnOneSnapshot ==
    [][RequestStep => (StillCapable /\ TogglesTheSeenMute)]_vars

\* (* C33 *) On an adapter constructed without an update callback (on_update
\* is None), handling an accepted state message replaces the snapshot by the
\* one computed from the message and the handler returns normally: no fault
\* escapes to the websocket worker.
C33_NoCallbackNoFault ==
    (/\ HandledMessage(last_op)
     /\ ~on_update
     /\ Accepted(last_op.arg.message))
    => /\ device_state = SnapshotOf(DataOf(last_op.arg.message))
       /\ last_op.outcome = "returned"

====
